---- MODULE Spec2Model ----
(***************************************************************************)
(* flate2: gzip framing (header parser, decoder state machine, write-side  *)
(* encoder) over the stream adapters and the DEFLATE engine.               *)
(*                                                                         *)
(* Bytes are integers 0..255.  A 32-bit word (u32) is kept as its four     *)
(* bytes, least significant first, because the model checker's integers    *)
(* are 32-bit signed: <<b0, b1, b2, b3>> stands for                        *)
(* b0 + 2^8*b1 + 2^16*b2 + 2^24*b3.                                        *)
(***************************************************************************)
EXTENDS Integers, Sequences, FiniteSets, TLC

(***************************************************************************)
(* Bit operations on bytes and words.                                      *)
(***************************************************************************)
RECURSIVE BitXor(_, _)
BitXor(a, b) ==
    IF a = 0 THEN b
    ELSE IF b = 0 THEN a
    ELSE ((a + b) % 2) + 2 * BitXor(a \div 2, b \div 2)

RECURSIVE BitAnd(_, _)
BitAnd(a, b) ==
    IF a = 0 \/ b = 0 THEN 0
    ELSE ((a % 2) * (b % 2)) + 2 * BitAnd(a \div 2, b \div 2)

\* a ^ b on bytes, tabulated once
XorTable == [a \in 0..255 |-> [b \in 0..255 |-> BitXor(a, b)]]

WordXor(x, y) == <<XorTable[x[1]][y[1]], XorTable[x[2]][y[2]],
                   XorTable[x[3]][y[3]], XorTable[x[4]][y[4]]>>

WordNot(x) == [i \in 1..4 |-> 255 - x[i]]

\* x >> 1 on a word
WordShr1(x) ==
    [i \in 1..4 |-> (x[i] \div 2) + (IF i < 4 THEN (x[i + 1] % 2) * 128 ELSE 0)]

\* x >> 8 on a word
WordShr8(x) == <<x[2], x[3], x[4], 0>>

ZeroWord == <<0, 0, 0, 0>>

\* an addition that carries nothing out of the lowest byte
WordAddLow(x, n) == [x EXCEPT ![1] = (@ + n) % 256]

\* wrapping_add of a small count to a word
RECURSIVE WordAddAt(_, _, _)
WordAddAt(x, n, i) ==
    IF i > 4 \/ n = 0 THEN x
    ELSE LET s == x[i] + n
         IN  WordAddAt([x EXCEPT ![i] = s % 256], s \div 256, i + 1)

WordAdd(x, n) == WordAddAt(x, n, 1)

(***************************************************************************)
(* CRC-32 (IEEE, bit-reflected), table driven as the hasher computes it.   *)
(***************************************************************************)
\* the reflected polynomial 0xEDB88320, least significant byte first
CrcPoly == <<32, 131, 184, 237>>

RECURSIVE CrcTableEntry(_, _)
CrcTableEntry(c, k) ==
    IF k = 0 THEN c
    ELSE CrcTableEntry(IF c[1] % 2 = 1 THEN WordXor(CrcPoly, WordShr1(c))
                                       ELSE WordShr1(c), k - 1)

CrcTable == [n \in 0..255 |-> CrcTableEntry(<<n, 0, 0, 0>>, 8)]

\* one byte through the register (the register holds the inverted sum)
CrcStep(reg, byte) == WordXor(CrcTable[XorTable[reg[1]][byte]], WordShr8(reg))

\* the register after data; the halves are run one after the other
RECURSIVE CrcRun(_, _)
CrcRun(reg, data) ==
    IF Len(data) = 0 THEN reg
    ELSE IF Len(data) = 1 THEN CrcStep(reg, data[1])
    ELSE LET h == Len(data) \div 2
             mid == CrcRun(reg, SubSeq(data, 1, h))
         IN  IF Len(mid) = 4 THEN CrcRun(mid, SubSeq(data, h + 1, Len(data)))
                             ELSE mid

\* crc32(initial, data): the checksum of data seeded with a finished checksum
Crc32From(initial, data) == WordNot(CrcRun(WordNot(initial), data))

(***************************************************************************)
(* Crc: the running checksum and the byte count (mod 2^32).                *)
(***************************************************************************)
CrcNew == [amt |-> ZeroWord, sum |-> ZeroWord]

CrcUpdate(crc, data) ==
    [amt |-> WordAdd(crc.amt, Len(data)), sum |-> Crc32From(crc.sum, data)]

CrcReset(crc) == [amt |-> ZeroWord, sum |-> ZeroWord]

(***************************************************************************)
(* Small helpers on sequences.                                             *)
(***************************************************************************)
Min(a, b) == IF a < b THEN a ELSE b

Zeros(n) == [i \in 1..n |-> 0]

Take(s, n) == SubSeq(s, 1, Min(n, Len(s)))

Drop(s, n) == SubSeq(s, Min(n, Len(s)) + 1, Len(s))

None == <<>>

Some(v) == <<v>>

(***************************************************************************)
(* I/O errors.                                                             *)
(***************************************************************************)
WouldBlock == [kind |-> "WouldBlock", msg |-> ""]

UnexpectedEof == [kind |-> "UnexpectedEof", msg |-> ""]

bad_header == [kind |-> "InvalidInput", msg |-> "invalid gzip header"]

corrupt ==
    [kind |-> "InvalidInput",
     msg |-> "corrupt gzip stream does not have a matching checksum"]

corrupt_deflate == [kind |-> "InvalidInput", msg |-> "corrupt deflate stream"]

(***************************************************************************)
(* The DEFLATE engine, decompression side.  The engine is an external      *)
(* collaborator; it is modelled on stored blocks (RFC 1951, BTYPE = 00):   *)
(* one byte carrying BFINAL and BTYPE, LEN and NLEN (16 bits each, little  *)
(* endian, NLEN the complement of LEN), then LEN literal bytes.            *)
(* A step consumes input and fills output as far as both allow.            *)
(***************************************************************************)
DecompressNew ==
    [st |-> "hdr", final |-> FALSE, lenbuf |-> <<>>, remaining |-> 0,
     total_in |-> 0, total_out |-> 0]

\* the state after reset: as after construction
DecompressReset(z) == DecompressNew

\* One engine step over input with room for cap output bytes.
\* Yields [z, out, rc] with rc in {"Ok", "BufError", "StreamEnd", "DataError"}.
RECURSIVE InflateRun(_, _, _, _, _)
InflateRun(z, input, cap, out, progress) ==
    CASE z.st = "done" ->
            [z |-> z, out |-> out, rc |-> "StreamEnd"]
      [] z.st = "bad" ->
            [z |-> z, out |-> out, rc |-> "DataError"]
      [] z.st = "hdr" ->
            IF input = <<>>
            THEN [z |-> z, out |-> out, rc |-> IF progress THEN "Ok" ELSE "BufError"]
            ELSE LET b == Head(input)
                     zin == [z EXCEPT !.total_in = @ + 1]
                 IN  IF (b \div 2) % 4 = 0
                     THEN InflateRun([zin EXCEPT !.st = "len", !.final = (b % 2 = 1),
                                                 !.lenbuf = <<>>],
                                     Tail(input), cap, out, TRUE)
                     ELSE [z |-> [zin EXCEPT !.st = "bad"], out |-> out,
                           rc |-> "DataError"]
      [] z.st = "len" ->
            IF input = <<>>
            THEN [z |-> z, out |-> out, rc |-> IF progress THEN "Ok" ELSE "BufError"]
            ELSE LET lb == Append(z.lenbuf, Head(input))
                     zin == [z EXCEPT !.total_in = @ + 1, !.lenbuf = lb]
                 IN  IF Len(lb) < 4
                     THEN InflateRun(zin, Tail(input), cap, out, TRUE)
                     ELSE IF lb[3] = 255 - lb[1] /\ lb[4] = 255 - lb[2]
                          THEN InflateRun([zin EXCEPT !.st = "data",
                                               !.remaining = lb[1] + 256 * lb[2]],
                                          Tail(input), cap, out, TRUE)
                          ELSE [z |-> [zin EXCEPT !.st = "bad"], out |-> out,
                                rc |-> "DataError"]
      [] z.st = "data" ->
            IF z.remaining = 0
            THEN InflateRun([z EXCEPT !.st = IF z.final THEN "done" ELSE "hdr"],
                            input, cap, out, progress)
            ELSE LET k == Min(z.remaining, Min(Len(input), cap - Len(out)))
                 IN  IF k = 0
                     THEN [z |-> z, out |-> out,
                           rc |-> IF progress THEN "Ok" ELSE "BufError"]
                     ELSE InflateRun([z EXCEPT !.remaining = @ - k,
                                               !.total_in = @ + k,
                                               !.total_out = @ + k],
                                     Drop(input, k), cap, out \o Take(input, k), TRUE)

\* Decompress::decompress(input, output, flush).  The flush directive does not
\* change what a stored stream decodes to: with Finish and an incomplete
\* stream the engine reports BufError, as with None.
Decompress(z, input, cap, flush) == InflateRun(z, input, cap, <<>>, FALSE)

(***************************************************************************)
(* The underlying reader R (a buffered, possibly non-blocking source).     *)
(* bytes: the whole stream; avail: how many of them have arrived so far;   *)
(* pos: how many the decoder has taken.  With every arrived byte taken the *)
(* source reports WouldBlock, or end of input when the stream has ended.   *)
(***************************************************************************)
ReaderNew(bytes, avail) == [bytes |-> bytes, avail |-> avail, pos |-> 0]

\* Read::read into a destination of n bytes
ReaderRead(r, n) ==
    LET k == Min(n, r.avail - r.pos)
    IN  IF k > 0 \/ n = 0
        THEN [r |-> [r EXCEPT !.pos = @ + k], st |-> "ok",
              data |-> SubSeq(r.bytes, r.pos + 1, r.pos + k), e |-> None]
        ELSE IF r.pos = Len(r.bytes)
             THEN [r |-> r, st |-> "ok", data |-> <<>>, e |-> None]
             ELSE [r |-> r, st |-> "err", data |-> <<>>, e |-> WouldBlock]

\* BufRead::fill_buf: the bytes that are buffered, empty at end of input
ReaderFillBuf(r) ==
    IF r.pos < r.avail
    THEN [st |-> "ok", data |-> SubSeq(r.bytes, r.pos + 1, r.avail), e |-> None]
    ELSE IF r.pos = Len(r.bytes)
         THEN [st |-> "ok", data |-> <<>>, e |-> None]
         ELSE [st |-> "err", data |-> <<>>, e |-> WouldBlock]

\* a consume that drops all that was buffered
ReaderConsumeAll(r, n) == [r EXCEPT !.pos = r.avail]

\* BufRead::consume
ReaderConsume(r, n) == [r EXCEPT !.pos = @ + n]

(***************************************************************************)
(* zio::read: the read-driven adapter step over a buffered source.         *)
(* Yields [r, z, st, data, e] and, as history, what the last codec step    *)
(* saw: eof (the source had nothing buffered and was at its end) and rc.   *)
(***************************************************************************)
\* a loop that never goes round again
NeverRetry(rc, read, eof, dstlen) == FALSE

\* the guard of `continue`: no output yet, input not at its end, room left
MustRetry(rc, read, eof, dstlen) ==
    rc \in {"Ok", "BufError"} /\ read = 0 /\ ~eof /\ dstlen > 0

RECURSIVE ZioRead(_, _, _)
ZioRead(r, z, dstlen) ==
    LET Ran(eof, ret) ==
            LET read == ret.z.total_out - z.total_out
                consumed == ret.z.total_in - z.total_in
                r1 == ReaderConsume(r, consumed)
            IN  IF MustRetry(ret.rc, read, eof, dstlen)
                THEN ZioRead(r1, ret.z, dstlen)
                ELSE IF ret.rc \in {"Ok", "BufError", "StreamEnd"}
                     THEN [r |-> r1, z |-> ret.z, st |-> "ok", data |-> ret.out,
                           e |-> None, eof |-> eof, rc |-> ret.rc]
                     ELSE [r |-> r1, z |-> ret.z, st |-> "err", data |-> <<>>,
                           e |-> corrupt_deflate, eof |-> eof, rc |-> ret.rc]
        Filled(fb) ==
            IF fb.st = "err"
            THEN [r |-> r, z |-> z, st |-> "err", data |-> <<>>, e |-> fb.e,
                  eof |-> FALSE, rc |-> "none"]
            ELSE LET eof == (fb.data = <<>>)
                     flush == IF eof THEN "Finish" ELSE "None"
                 IN  Ran(eof, Decompress(z, fb.data, dstlen, flush))
    IN  Filled(ReaderFillBuf(r))

(***************************************************************************)
(* gzip header flags.                                                      *)
(***************************************************************************)
FHCRC == 2

FEXTRA == 4

FNAME == 8

FCOMMENT == 16

HasFlag(flg, bit) == BitAnd(flg, bit) # 0

(***************************************************************************)
(* gz/bufread.rs: the suspendable header parser of the decoder.            *)
(***************************************************************************)
GzHeaderPartialNew ==
    [buf |-> <<>>, state |-> "Start", flg |-> 0, os |-> 0, xlen |-> 0,
     mtime |-> ZeroWord, extra |-> None, filename |-> <<>>, comment |-> <<>>]

\* a header that reports the filename and the comment whatever the flags
take_header_all(part) ==
    [extra |-> part.extra, filename |-> Some(part.filename),
     comment |-> Some(part.comment), operating_system |-> part.os,
     mtime |-> part.mtime]

take_header(part) ==
    [extra |-> part.extra,
     filename |-> IF HasFlag(part.flg, FNAME) THEN Some(part.filename) ELSE None,
     comment |-> IF HasFlag(part.flg, FCOMMENT) THEN Some(part.comment) ELSE None,
     operating_system |-> part.os,
     mtime |-> part.mtime]

\* Buffer::new: the adapter built for one call of the parser
BufferNew(part, r) ==
    [part |-> part, buf_cur |-> 0, buf_max |-> Len(part.buf), crc |-> CrcNew,
     reader |-> r]

\* Buffer::read into a destination of n bytes.  Yields [b, st, data, e];
\* st = "panic" is the slice-index panic of part.buf[buf_cur..buf_max].
BufferRead(b, n) ==
    IF b.buf_cur = b.buf_max
    THEN LET Got(rr) ==
                 IF rr.st = "err"
                 THEN [b |-> b, st |-> "err", data |-> <<>>, e |-> rr.e]
                 ELSE [b |-> [b EXCEPT !.reader = rr.r, !.part.buf = @ \o rr.data],
                       st |-> "ok", data |-> rr.data, e |-> None]
         IN  Got(ReaderRead(b.reader, n))
    ELSE IF b.buf_max > Len(b.part.buf) \/ b.buf_cur > b.buf_max
         THEN [b |-> b, st |-> "panic", data |-> <<>>, e |-> None]
         ELSE LET len == Min(n, b.buf_max - b.buf_cur)
              IN  [b |-> [b EXCEPT !.buf_cur = @ + len], st |-> "ok",
                   data |-> SubSeq(b.part.buf, b.buf_cur + 1, b.buf_cur + len),
                   e |-> None]

\* the tail of read_once, after its loop: rem bytes of the destination were
\* never filled and still hold the zeros they were created with
ReadOnceEnd(b, got, rem) ==
    [b |-> [b EXCEPT !.crc = CrcUpdate(@, Zeros(rem)), !.part.buf = <<>>],
     st |-> "ok", data |-> got \o Zeros(rem), e |-> None]

\* the loop of read_once: got is the filled part of the destination, rem the
\* length of what is left of it
RECURSIVE ReadOnceLoop(_, _, _)
ReadOnceLoop(b, got, rem) ==
    IF rem = 0
    THEN ReadOnceEnd(b, got, rem)
    ELSE LET Got(rd) ==
                 LET n == Len(rd.data)
                 IN  IF rd.st # "ok"
                     THEN [b |-> rd.b, st |-> rd.st, data |-> <<>>, e |-> rd.e]
                     ELSE IF n = 0
                          THEN ReadOnceEnd(rd.b, got, rem)
                          ELSE ReadOnceLoop(IF n < rem
                                            THEN [rd.b EXCEPT !.part.buf = @ \o rd.data]
                                            ELSE rd.b,
                                            got \o rd.data, rem - n)
         IN  Got(BufferRead(b, rem))

\* Buffer::read_once into a destination of n zero bytes
read_once(b, n) == ReadOnceLoop(b, <<>>, n)

read_le_u16_once(b) ==
    LET Got(rd) ==
            [b |-> rd.b, st |-> rd.st, e |-> rd.e,
             v |-> IF rd.st = "ok" THEN rd.data[1] + 256 * rd.data[2] ELSE 0]
    IN  Got(read_once(b, 2))

\* `for byte in r.reader.bytes()` of the Filename and Comment states: bytes are
\* taken from the reader one at a time up to and including the first zero;
\* the end of input ends the loop as well.  Yields [b, st, e, acc].
RECURSIVE ReadCStr(_, _)
ReadCStr(b, acc) ==
    LET Next1(byte, b1) ==
            IF byte = 0
            THEN [b |-> b1, st |-> "ok", e |-> None, acc |-> acc]
            ELSE ReadCStr(b1, Append(acc, byte))
        Got(rr) ==
            IF rr.st = "err"
            THEN [b |-> b, st |-> "err", e |-> rr.e, acc |-> acc]
            ELSE IF rr.data = <<>>
                 THEN [b |-> b, st |-> "ok", e |-> None, acc |-> acc]
                 ELSE Next1(rr.data[1],
                            [b EXCEPT !.reader = rr.r,
                                      !.crc = CrcUpdate(@, <<rr.data[1]>>)])
    IN  Got(ReaderRead(b.reader, 1))

\* the check of the Crc state
HeaderCrcOk(stored_crc, crc) == stored_crc = crc.sum[1] + 256 * crc.sum[2]

\* the checks of the Start state on the ten fixed bytes
MagicOk(header) == header[1] = 31 /\ header[2] = 139

\* a check that lets every method through
MethodAny(header) == TRUE

MethodOk(header) == header[3] = 8

\* read_gz_header_part.  Yields [b, st, e] with st in {"ok", "err", "panic"}.
RECURSIVE read_gz_header_part(_)
read_gz_header_part(b) ==
    CASE b.part.state = "Start" ->
            LET Got(rd) ==
                    LET header == rd.data
                    IN  IF rd.st # "ok"
                        THEN [b |-> rd.b, st |-> rd.st, e |-> rd.e]
                        ELSE IF ~MagicOk(header)
                             THEN [b |-> rd.b, st |-> "err", e |-> bad_header]
                             ELSE IF ~MethodOk(header)
                                  THEN [b |-> rd.b, st |-> "err", e |-> bad_header]
                                  ELSE read_gz_header_part(
                                         [rd.b EXCEPT !.part.flg = header[4],
                                                      !.part.mtime = SubSeq(header, 5, 8),
                                                      !.part.os = header[10],
                                                      !.part.state = "Xlen"])
            IN  Got(read_once(b, 10))
      [] b.part.state = "Xlen" ->
            IF HasFlag(b.part.flg, FEXTRA)
            THEN LET Got(rd) ==
                         IF rd.st # "ok"
                         THEN [b |-> rd.b, st |-> rd.st, e |-> rd.e]
                         ELSE read_gz_header_part(
                                [rd.b EXCEPT !.part.xlen = rd.v,
                                             !.part.state = "Extra"])
                 IN  Got(read_le_u16_once(b))
            ELSE read_gz_header_part([b EXCEPT !.part.state = "Extra"])
      [] b.part.state = "Extra" ->
            IF HasFlag(b.part.flg, FEXTRA)
            THEN LET Got(rd) ==
                         IF rd.st # "ok"
                         THEN [b |-> rd.b, st |-> rd.st, e |-> rd.e]
                         ELSE read_gz_header_part(
                                [rd.b EXCEPT !.part.extra = Some(rd.data),
                                             !.part.state = "Filename"])
                 IN  Got(read_once(b, b.part.xlen))
            ELSE read_gz_header_part([b EXCEPT !.part.state = "Filename"])
      [] b.part.state = "Filename" ->
            IF HasFlag(b.part.flg, FNAME)
            THEN LET Got(rd) ==
                         LET b1 == [rd.b EXCEPT !.part.filename = rd.acc]
                         IN  IF rd.st # "ok"
                             THEN [b |-> b1, st |-> rd.st, e |-> rd.e]
                             ELSE read_gz_header_part(
                                    [b1 EXCEPT !.part.state = "Comment"])
                 IN  Got(ReadCStr(b, b.part.filename))
            ELSE read_gz_header_part([b EXCEPT !.part.state = "Comment"])
      [] b.part.state = "Comment" ->
            IF HasFlag(b.part.flg, FCOMMENT)
            THEN LET Got(rd) ==
                         LET b1 == [rd.b EXCEPT !.part.comment = rd.acc]
                         IN  IF rd.st # "ok"
                             THEN [b |-> b1, st |-> rd.st, e |-> rd.e]
                             ELSE read_gz_header_part([b1 EXCEPT !.part.state = "Crc"])
                 IN  Got(ReadCStr(b, b.part.comment))
            ELSE read_gz_header_part([b EXCEPT !.part.state = "Crc"])
      [] b.part.state = "Crc" ->
            IF HasFlag(b.part.flg, FHCRC)
            THEN LET Got(rd) ==
                         IF rd.st # "ok"
                         THEN [b |-> rd.b, st |-> rd.st, e |-> rd.e]
                         ELSE IF ~HeaderCrcOk(rd.v, rd.b.crc)
                              THEN [b |-> rd.b, st |-> "err", e |-> corrupt]
                              ELSE [b |-> rd.b, st |-> "ok", e |-> None]
                 IN  Got(read_le_u16_once(b))
            ELSE [b |-> b, st |-> "ok", e |-> None]

(***************************************************************************)
(* gz/bufread.rs: GzDecoder.  The record d holds the decoder and, in r,    *)
(* the reader it owns:                                                     *)
(*   inner    the GzState tag: Header, Body, Finished, Err, End            *)
(*   part     the GzHeaderPartial of Header                                *)
(*   pos, buf the trailer position and bytes of Finished                   *)
(*   err      the error of Err                                             *)
(*   header   Option<GzHeader>                                             *)
(*   crc, data  the CrcReader's checksum and the DEFLATE decoder's codec   *)
(* and four history fields that the code does not keep:                    *)
(*   hstall    a call of the header parser has met WouldBlock              *)
(*   produced  the bytes returned for the member being read                *)
(*   verified  per member accepted: its trailer and the bytes returned     *)
(*   rejected  Some of the same for the member whose trailer did not match *)
(***************************************************************************)
\* finish(buf): the trailer's checksum and length
finish(buf) == [crc |-> SubSeq(buf, 1, 4), amt |-> SubSeq(buf, 5, 8)]

\* a comparison that forgets the length
TrailerOkCrcOnly(buf, crc) == finish(buf).crc = crc.sum

\* the comparison of the Finished arm once all 8 bytes are in
TrailerOk(buf, crc) == finish(buf).crc = crc.sum /\ finish(buf).amt = crc.amt

\* a failing read that never puts the state back
DropOnWouldBlock(d, e) == [d EXCEPT !.inner = "End"]

\* the state kept when a read of Body or Finished fails with WouldBlock
KeepOnWouldBlock(d, e) == IF e = WouldBlock THEN d ELSE [d EXCEPT !.inner = "End"]

\* the outcome of a parser call, shared by GzDecoder::new and the Header arm
AfterHeader(d, hp) ==
    CASE hp.st = "ok" ->
            [d EXCEPT !.inner = "Body", !.header = Some(take_header(hp.b.part)),
                      !.part = GzHeaderPartialNew, !.r = hp.b.reader]
      [] hp.st = "err" /\ hp.e = WouldBlock ->
            [d EXCEPT !.inner = "Header", !.part = hp.b.part, !.r = hp.b.reader,
                      !.hstall = TRUE]
      [] hp.st = "err" /\ hp.e # WouldBlock ->
            [d EXCEPT !.inner = "Err", !.err = hp.e, !.part = GzHeaderPartialNew,
                      !.r = hp.b.reader]
      [] OTHER ->
            [d EXCEPT !.inner = "End", !.part = GzHeaderPartialNew,
                      !.r = hp.b.reader]

\* GzDecoder::new(r)
GzDecoderNew(r) ==
    LET d0 == [inner |-> "Header", part |-> GzHeaderPartialNew, pos |-> 0,
               buf |-> Zeros(8), err |-> None, header |-> None, crc |-> CrcNew,
               data |-> DecompressNew, multi |-> FALSE, r |-> r,
               hstall |-> FALSE, produced |-> <<>>, verified |-> <<>>,
               rejected |-> None]
    IN  AfterHeader(d0, read_gz_header_part(BufferNew(d0.part, r)))

\* GzDecoder::multi(flag)
multi(d, flag) == [d EXCEPT !.multi = flag]

\* MultiGzDecoder::new(r)
MultiGzDecoderNew(r) == multi(GzDecoderNew(r), TRUE)

GzOk(d, data) == [d |-> d, st |-> "ok", data |-> data, e |-> None]

GzErr(d, e) == [d |-> d, st |-> "err", data |-> <<>>, e |-> e]

\* the Header arm: one pass of the loop.  Yields the decoder after the arm
\* and whether the parser panicked.
HeaderArm(d) ==
    LET Parsed(hp) == [d |-> AfterHeader(d, hp), panic |-> hp.st = "panic"]
    IN  Parsed(read_gz_header_part(BufferNew(d.part, d.r)))

\* history: the member is accepted with the trailer in d.buf
Accept(d) ==
    [d EXCEPT !.verified = Append(@, [trailer |-> d.buf, produced |-> d.produced]),
              !.produced = <<>>]

\* history: the member is refused with the trailer in d.buf
Reject(d) ==
    [d EXCEPT !.rejected = Some([trailer |-> d.buf, produced |-> d.produced])]

\* a read that leaves the state where it found it
LeaveState(d) == d

\* `mem::replace(&mut self.inner, GzState::End)`: the state an arm leaves
\* behind unless it stores another
TakeState(d) == [d EXCEPT !.inner = "End"]

\* a test that takes every decoder for a multi-member one
IsMultiAlways(d) == TRUE

\* `else if *multi` of the Finished arm
IsMulti(d) == d.multi

\* a read of the trailer that takes one byte more from the source than it
\* returns
TrailerReadAhead(d) ==
    LET Got(rr) == [rr EXCEPT !.r.pos = Min(@ + 1, rr.r.avail)]
    IN  Got(ReaderRead(d.r, Len(d.buf) - d.pos))

\* the Finished arm's read into buf[pos..], from the source itself
TrailerRead(d) == ReaderRead(d.r, Len(d.buf) - d.pos)

\* a test that takes the source to be at its end whatever it holds
IsEofAlways(fb) == TRUE

\* `.map(|buf| buf.is_empty())` on the fill_buf of the Finished arm
IsEof(fb) == fb.data = <<>>

\* a restart that leaves the checksum and the count running
MultiRestartKeepCrc(d) ==
    [d EXCEPT !.data = DecompressReset(@), !.header = None,
              !.inner = "Header", !.part = GzHeaderPartialNew, !.pos = 0,
              !.buf = Zeros(8)]

\* the multi-member branch of the Finished arm, the trailer having verified
MultiRestart(d) ==
    [d EXCEPT !.crc = CrcReset(@), !.data = DecompressReset(@), !.header = None,
              !.inner = "Header", !.part = GzHeaderPartialNew, !.pos = 0,
              !.buf = Zeros(8)]

\* GzDecoder::read(into), into of length n.  Yields [d, st, data, e] with st:
\*   "ok"    Ok(Len(data))         "err"   Err(e)
\*   "panic" the call panicked     "spin"  the Header arm met WouldBlock and
\*                                         the loop goes round again: the
\*                                         call has not returned
RECURSIVE GzRead(_, _)
GzRead(d, n) ==
    CASE d.inner = "Header" ->
            LET Went(h) ==
                    IF h.panic
                    THEN [d |-> h.d, st |-> "panic", data |-> <<>>, e |-> None]
                    ELSE IF h.d.inner = "Header"
                         THEN [d |-> h.d, st |-> "spin", data |-> <<>>, e |-> None]
                         ELSE GzRead(h.d, n)
            IN  Went(HeaderArm(d))
      [] d.inner = "Body" ->
            IF n = 0 THEN GzOk(d, <<>>)
            ELSE LET Took(zr, d1) ==
                         IF zr.st = "err" THEN GzErr(KeepOnWouldBlock(d1, zr.e), zr.e)
                         ELSE IF zr.data = <<>>
                              THEN GzRead([d1 EXCEPT !.inner = "Finished", !.pos = 0,
                                                     !.buf = Zeros(8)], n)
                              ELSE GzOk([d1 EXCEPT !.produced = @ \o zr.data], zr.data)
                     Got(zr) ==
                         Took(zr, [d EXCEPT !.r = zr.r, !.data = zr.z,
                                            !.crc = CrcUpdate(@, zr.data)])
                 IN  Got(ZioRead(d.r, d.data, n))
      [] d.inner = "Finished" ->
            IF d.pos < Len(d.buf)
            THEN LET rr == TrailerRead(d)
                     k == Len(rr.data)
                 IN  IF rr.st = "err" THEN GzErr(KeepOnWouldBlock(d, rr.e), rr.e)
                     ELSE IF k = 0 THEN GzErr(TakeState(d), UnexpectedEof)
                     ELSE GzRead([d EXCEPT !.r = rr.r, !.pos = @ + k,
                                    !.buf = SubSeq(@, 1, d.pos) \o rr.data
                                            \o SubSeq(@, d.pos + k + 1, Len(@))], n)
            ELSE IF ~TrailerOk(d.buf, d.crc)
                 THEN GzErr(TakeState(Reject(d)), corrupt)
                 ELSE IF IsMulti(d)
                      THEN LET fb == ReaderFillBuf(d.r)
                           IN  IF fb.st = "err"
                               THEN GzErr(KeepOnWouldBlock(d, fb.e), fb.e)
                               ELSE IF IsEof(fb)
                                    THEN GzRead([Accept(d) EXCEPT !.inner = "End"], n)
                                    ELSE GzRead(MultiRestart(Accept(d)), n)
                      ELSE GzRead([Accept(d) EXCEPT !.inner = "End"], n)
      [] d.inner = "Err" -> GzErr([TakeState(d) EXCEPT !.err = None], d.err)
      [] d.inner = "End" -> GzOk(d, <<>>)

(***************************************************************************)
(* The DEFLATE engine, compression side (stored blocks).  Input is taken   *)
(* into the engine's window (pend); a full window is emitted as a block;   *)
(* Finish emits what is pending as the final block.  Output the caller has *)
(* no room for stays in the engine (eout) for the next step.               *)
(***************************************************************************)
\* the engine's window, in bytes
BlockMax == 2

StoredBlock(final, data) ==
    <<IF final THEN 1 ELSE 0,
      Len(data) % 256, (Len(data) \div 256) % 256,
      255 - (Len(data) % 256), 255 - ((Len(data) \div 256) % 256)>> \o data

CompressNew ==
    [pend |-> <<>>, eout |-> <<>>, fin |-> FALSE, total_in |-> 0, total_out |-> 0]

RECURSIVE EmitFull(_)
EmitFull(z) ==
    IF Len(z.pend) >= BlockMax
    THEN EmitFull([z EXCEPT !.eout = @ \o StoredBlock(FALSE, Take(z.pend, BlockMax)),
                            !.pend = Drop(@, BlockMax)])
    ELSE z

\* Compress::compress(input, output, flush) with room for cap output bytes.
\* Yields [z, out, rc] with rc in {"Ok", "BufError", "StreamEnd"}.
Compress(z, input, cap, flush) ==
    LET taken == IF z.fin THEN <<>> ELSE input
        Flushed(z1) ==
            IF flush = "Finish" /\ ~z1.fin
            THEN [z1 EXCEPT !.eout = @ \o StoredBlock(TRUE, z1.pend),
                            !.pend = <<>>, !.fin = TRUE]
            ELSE IF flush = "Sync" /\ ~z1.fin /\ z1.pend # <<>>
                 THEN [z1 EXCEPT !.eout = @ \o StoredBlock(FALSE, z1.pend),
                                 !.pend = <<>>]
                 ELSE z1
        Give(z2, k) ==
            LET z3 == [z2 EXCEPT !.eout = Drop(@, k), !.total_out = @ + k]
            IN  [z |-> z3, out |-> Take(z2.eout, k),
                 rc |-> IF z3.fin /\ z3.eout = <<>> THEN "StreamEnd"
                        ELSE IF Len(taken) > 0 \/ k > 0 THEN "Ok" ELSE "BufError"]
        Out(z2) == Give(z2, Min(cap, Len(z2.eout)))
    IN  Out(Flushed(EmitFull([z EXCEPT !.pend = @ \o taken,
                                       !.total_in = @ + Len(taken)])))

(***************************************************************************)
(* zio::Writer: the write-driven adapter.  obj is the sink (the bytes it   *)
(* has received, or None once taken), buf the scratch buffer.              *)
(***************************************************************************)
\* capacity of the scratch buffer (32 KiB in the code)
BufCap == 3

\* the error of write_all when the sink takes no more bytes
WriteZero == [kind |-> "WriteZero", msg |-> "failed to write whole buffer"]

\* Writer::new(w, d).  nested: the sink is itself a Writer (else a vector, or
\* with room = Some(n) a slice that takes n more bytes).  st and e are the
\* outcome of the last call on the writer: "ok", "err" with the error e,
\* "panic" when the call unwound, "hang" when the call never returns.
WriterOf(w, d) ==
    [obj |-> Some(w), data |-> d, buf |-> <<>>, nested |-> FALSE, room |-> None,
     st |-> "ok", e |-> None]

\* the write-side encoder's Writer
WriterNew(w) == WriterOf(w, CompressNew)

\* the write-side decoder's Writer
DecoderWriterNew(w) == WriterOf(w, DecompressNew)

\* impl Ops for Compress, impl Ops for Decompress: run; rc "DataError" is Err
OpsRun(d, input, cap, flush) ==
    IF "pend" \in DOMAIN d
    THEN Compress(d, input, cap, flush)
    ELSE Decompress(d, input, cap, flush)

\* a dump that writes nothing and keeps the scratch buffer
WriterKeep(w) == w

\* the unwrap() of the codec's result in finish and in flush
Unwrap(w) == [w EXCEPT !.st = "panic", !.e = None]

\* a write that reports the codec's error as success
WriteErrAsOk(w) == [w EXCEPT !.st = "ok", !.e = None]

\* the codec's error as write returns it
WriteErr(w) == [w EXCEPT !.st = "err", !.e = corrupt_deflate]

\* run_vec: a codec step into the unused capacity of the scratch buffer
WriterRunVec(w, input, flush) ==
    LET Ran(ret) ==
            [w |-> [w EXCEPT !.data = ret.z, !.buf = @ \o ret.out], rc |-> ret.rc]
    IN  Ran(OpsRun(w.data, input, BufCap - Len(w.buf), flush))

\* Writer::dump: write_all of the scratch buffer to the sink; write_all is
\* Write::write_all over Writer::write when the sink is a Writer
RECURSIVE WriterDump(_), WriterWrite(_, _), WriterWriteAll(_, _)

WriterDump(w) ==
    LET Ok(v) == [v EXCEPT !.st = "ok", !.e = None]
        Nested(in) ==
            IF in.st = "ok"
            THEN [Ok(w) EXCEPT !.obj = Some(in), !.buf = <<>>]
            ELSE [w EXCEPT !.obj = Some(in), !.st = in.st, !.e = in.e]
    IN  IF Len(w.buf) = 0 THEN Ok(w)
        ELSE IF w.obj = None THEN [w EXCEPT !.st = "panic", !.e = None]
        ELSE IF w.nested THEN Nested(WriterWriteAll(w.obj[1], w.buf))
        ELSE IF w.room = None
             THEN [Ok(w) EXCEPT !.obj = Some(@[1] \o w.buf), !.buf = <<>>]
        ELSE IF Len(w.buf) <= w.room[1]
             THEN [Ok(w) EXCEPT !.obj = Some(@[1] \o w.buf), !.buf = <<>>,
                                !.room = Some(@[1] - Len(w.buf))]
        ELSE [w EXCEPT !.obj = Some(@[1] \o Take(w.buf, w.room[1])),
                       !.room = Some(0), !.st = "err", !.e = WriteZero]

\* Writer::write(buf).  Yields [w, n, rc]: Ok(n) when w.st = "ok"; rc is, as
\* history, what the codec reported last in the call.
WriterWrite(w, input) ==
    LET Ran(before_in, d, rv) ==
            LET written == rv.w.data.total_in - before_in
            IN  IF Len(input) > 0 /\ written = 0 /\ rv.rc # "DataError"
                THEN IF rv.w = d
                     THEN [w |-> [d EXCEPT !.st = "hang"], n |-> 0, rc |-> rv.rc]
                     ELSE WriterWrite(rv.w, input)
                ELSE IF rv.rc = "DataError"
                     THEN [w |-> WriteErr(rv.w), n |-> 0, rc |-> rv.rc]
                     ELSE [w |-> rv.w, n |-> written, rc |-> rv.rc]
        Dumped(d) ==
            IF d.st # "ok" THEN [w |-> d, n |-> 0, rc |-> "none"]
            ELSE Ran(d.data.total_in, d, WriterRunVec(d, input, "None"))
    IN  Dumped(WriterDump(w))

\* Write::write_all(buf) on a Writer.  Yields the writer.
WriterWriteAll(w, input) ==
    LET Wrote(ww) ==
            IF ww.w.st # "ok" THEN ww.w
            ELSE IF ww.n = 0 THEN [ww.w EXCEPT !.st = "err", !.e = WriteZero]
            ELSE WriterWriteAll(ww.w, Drop(input, ww.n))
    IN  IF Len(input) = 0 THEN [w EXCEPT !.st = "ok", !.e = None]
        ELSE Wrote(WriterWrite(w, input))

\* a finish that does nothing
WriterUnfinished(w) == w

\* Writer::finish
RECURSIVE WriterFinish(_)
WriterFinish(w) ==
    LET Ran(before, rv) ==
            IF rv.rc = "DataError" THEN Unwrap(rv.w)
            ELSE IF before = rv.w.data.total_out THEN rv.w
            ELSE WriterFinish(rv.w)
        Dumped(d) ==
            IF d.st # "ok" THEN d
            ELSE Ran(d.data.total_out, WriterRunVec(d, <<>>, "Finish"))
    IN  Dumped(WriterDump(w))

\* Writer::flush.  Yields [w, at]: the writer, and as history the number of
\* bytes the sink had received when its own flush was called.
RECURSIVE WriterFlush(_)
WriterFlush(w) ==
    LET Sunk(in) ==
            [w |-> [in.w.w EXCEPT !.obj = Some(in.f.w), !.st = in.f.w.st,
                                  !.e = in.f.w.e],
             at |-> in.f.w.data.total_in]
        Ran(before, rv) ==
            IF rv.rc = "DataError" THEN [w |-> Unwrap(rv.w), at |-> 0]
            ELSE IF before # rv.w.data.total_out THEN WriterFlush(rv.w)
            ELSE IF rv.w.nested
                 THEN Sunk([w |-> rv, f |-> WriterFlush(rv.w.obj[1])])
                 ELSE [w |-> rv.w, at |-> Len(rv.w.obj[1])]
        Dumped(d) ==
            IF d.st # "ok" THEN [w |-> d, at |-> 0]
            ELSE Ran(d.data.total_out, WriterRunVec(d, <<>>, "Sync"))
    IN  Dumped(WriterDump(w))

\* Writer::take_inner.  Yields [w, obj]: the writer left and the sink taken.
take_inner(w) == [w |-> [w EXCEPT !.obj = None], obj |-> w.obj]

\* Compress::reset: as after construction
CompressReset(z) == CompressNew

\* a reset that leaves the codec as it is
OpsKeep(d) == d

\* the codec's reset
OpsReset(d) == IF "pend" \in DOMAIN d THEN CompressReset(d) ELSE DecompressReset(d)

\* Writer::replace(w).  Yields [w, old]: the writer and the sink it had.
WriterReplace(w, neww) ==
    IF w.obj = None
    THEN [w |-> [w EXCEPT !.buf = <<>>, !.st = "panic"], old |-> None]
    ELSE [w |-> [w EXCEPT !.buf = <<>>, !.obj = Some(neww)], old |-> w.obj]

\* reset(w) of the write-side encoder and decoder: finish, the codec's reset,
\* replace.  Yields [w, old]; old is None when finish failed.
WriterReset(w, neww) ==
    LET Finished(f) ==
            IF f.st # "ok" THEN [w |-> f, old |-> None]
            ELSE WriterReplace([f EXCEPT !.data = OpsReset(@)], neww)
    IN  Finished(WriterFinish(w))

\* a drop that does nothing
WriterForget(w) == w

\* Drop for Writer: `let _ = self.finish()` discards an error, not a panic
WriterDrop(w) ==
    LET Finished(f) == IF f.st = "err" THEN [f EXCEPT !.st = "ok", !.e = None]
                       ELSE f
    IN  IF w.obj # None THEN Finished(WriterFinish(w)) ELSE w

\* a write_all_raw that writes nothing
WriterSkipRaw(w, bytes) == w

\* write_all_raw: bytes written to the sink directly, past the codec
WriterWriteAllRaw(w, bytes) == [w EXCEPT !.obj = Some(@[1] \o bytes)]

(***************************************************************************)
(* GzBuilder::into_header and the write-side gzip encoder.                 *)
(***************************************************************************)
BitOr(a, b) == a + b - BitAnd(a, b)

LevelNone == 0

LevelFast == 1

LevelDefault == 6

LevelBest == 9

\* flags that never announce the comment
HeaderFlagsNoComment(b) ==
    BitOr(IF b.extra # None THEN FEXTRA ELSE 0,
          IF b.filename # None THEN FNAME ELSE 0)

\* the `flg |= ...` of into_header
HeaderFlags(b) ==
    BitOr(BitOr(IF b.extra # None THEN FEXTRA ELSE 0,
                IF b.filename # None THEN FNAME ELSE 0),
          IF b.comment # None THEN FCOMMENT ELSE 0)

\* b is a builder: [extra, filename, comment, operating_system: Option, mtime: word]
into_header(b, lvl) ==
    LET flg == HeaderFlags(b)
        xfl == IF lvl >= LevelBest THEN 2 ELSE IF lvl <= LevelFast THEN 4 ELSE 0
        os == IF b.operating_system # None THEN b.operating_system[1] ELSE 255
    IN  <<31, 139, 8, flg, b.mtime[1], b.mtime[2], b.mtime[3], b.mtime[4], xfl, os>>
        \o (IF b.extra # None
            THEN <<Len(b.extra[1]) % 256, (Len(b.extra[1]) \div 256) % 256>>
                 \o b.extra[1]
            ELSE <<>>)
        \o (IF b.filename # None THEN Append(b.filename[1], 0) ELSE <<>>)
        \o (IF b.comment # None THEN Append(b.comment[1], 0) ELSE <<>>)

GzBuilderNew ==
    [extra |-> None, filename |-> None, comment |-> None,
     operating_system |-> None, mtime |-> ZeroWord]

\* a trailer with its two words in the wrong order
TrailerSwapped(crc) == crc.amt \o crc.sum

\* the trailer: checksum, then length, least significant byte first
Trailer(crc) == crc.sum \o crc.amt

\* GzBuilder::write(w, lvl)
GzEncoderNew(b, w, lvl) ==
    [inner |-> WriterNew(w), crc |-> CrcNew, header |-> into_header(b, lvl)]

\* EncoderWriter::write(buf).  Yields [g, n]: Ok(n).
GzEncoderWrite(g, input) ==
    LET w0 == IF Len(g.header) # 0 THEN WriterWriteAllRaw(g.inner, g.header)
                                   ELSE g.inner
        Wrote(ww) ==
            [g |-> [g EXCEPT !.inner = ww.w, !.header = <<>>,
                             !.crc = CrcUpdate(@, Take(input, ww.n))],
             n |-> ww.n]
    IN  Wrote(WriterWrite(w0, input))

\* EncoderWriter::do_finish.  Yields [g, w]: the encoder left behind and the
\* sink returned, holding the whole stream.
GzEncoderFinish(g) ==
    LET w0 == IF Len(g.header) # 0 THEN WriterWriteAllRaw(g.inner, g.header)
                                   ELSE g.inner
        Finished(w1) ==
            [g |-> [g EXCEPT !.inner = [w1 EXCEPT !.obj = None]],
             w |-> w1.obj[1] \o Trailer(g.crc)]
    IN  Finished(WriterFinish(w0))

(***************************************************************************)
(* Streams given to the decoder: members produced by the encoder, members  *)
(* carrying a header checksum, concatenations, truncations and damage.     *)
(***************************************************************************)
\* longest payload of a round trip
MaxPayload == 3

\* longest argument of one write call
MaxChunk == 2

\* longest destination of one read call
MaxRead == 2

PayloadBytes == {0, 7}

Builders ==
    { GzBuilderNew,
      [GzBuilderNew EXCEPT !.filename = Some(<<97>>), !.mtime = <<1, 0, 0, 0>>],
      [GzBuilderNew EXCEPT !.extra = Some(<<5>>), !.comment = Some(<<98>>),
                           !.operating_system = Some(3)] }

Levels == {LevelFast, LevelDefault, LevelBest}

\* the stream after the header: one write of v, then finish
MemberBody(v) ==
    LET g == GzEncoderNew(GzBuilderNew, <<>>, LevelDefault)
    IN  Drop(GzEncoderFinish(GzEncoderWrite(g, v).g).w, Len(g.header))

Member(b, lvl, v) == into_header(b, lvl) \o MemberBody(v)

\* a header with the FHCRC flag set and the two low bytes of the CRC-32 of
\* all the header bytes before them appended
WithHcrc(header) ==
    LET h == [header EXCEPT ![4] = BitOr(@, FHCRC)]
        c == Crc32From(ZeroWord, h)
    IN  h \o <<c[1], c[2]>>

HcrcMember(b, lvl, v) == WithHcrc(into_header(b, lvl)) \o MemberBody(v)

Prefixes(s) == { Take(s, k) : k \in 0..(Len(s) - 1) }

ValidSingles ==
    { Member(b, LevelDefault, v) : b \in Builders, v \in {<<>>, <<7>>, <<7, 0, 7>>} }

HcrcSingles ==
    { HcrcMember(b, LevelBest, <<7>>) : b \in Builders }

\* pairs of members with what each holds
Doubles ==
    { [m1 |-> Member(GzBuilderNew, LevelDefault, <<7>>), v1 |-> <<7>>,
       m2 |-> Member(GzBuilderNew, LevelFast, <<0>>), v2 |-> <<0>>],
      [m1 |-> Member(GzBuilderNew, LevelDefault, <<>>), v1 |-> <<>>,
       m2 |-> Member([GzBuilderNew EXCEPT !.filename = Some(<<97>>)],
                     LevelDefault, <<7>>),
       v2 |-> <<7>>],
      [m1 |-> Member(GzBuilderNew, LevelDefault, <<7>>), v1 |-> <<7>>,
       m2 |-> HcrcMember(GzBuilderNew, LevelDefault, <<0>>), v2 |-> <<0>>] }

ValidDoubles == { p.m1 \o p.m2 : p \in Doubles }

\* the member that is cut short, and the length of its header
CutMember ==
    Member([GzBuilderNew EXCEPT !.extra = Some(<<5>>)], LevelDefault, <<7>>)

CutHeaderLen ==
    Len(into_header([GzBuilderNew EXCEPT !.extra = Some(<<5>>)], LevelDefault))

Truncated == Prefixes(CutMember)

BadTrailer ==
    { [m EXCEPT ![Len(m) - 8 + i] = (@ + 1) % 256] :
        m \in {Member(GzBuilderNew, LevelDefault, <<7>>)}, i \in 1..8 }

BadMagic ==
    UNION { { [m EXCEPT ![1] = 0], [m EXCEPT ![2] = 0], [m EXCEPT ![3] = 7] } :
              m \in {Member(GzBuilderNew, LevelDefault, <<7>>)} }
        \cup { <<0>>, <<31, 0>>, <<31, 139, 7>> }

TrailingJunk == { Member(GzBuilderNew, LevelDefault, <<7>>) \o <<0>> }

Sources ==
    ValidSingles \cup HcrcSingles \cup ValidDoubles \cup Truncated
        \cup BadTrailer \cup BadMagic \cup TrailingJunk

\* the final result of a read call: Ok(0) into a destination with room, or an
\* error other than WouldBlock
IsFinal(r) ==
    \/ r.st = "ok" /\ r.n = 0 /\ r.into > 0
    \/ r.st = "err" /\ r.e # WouldBlock

\* the whole stream read to its final result from a source that never blocks
RECURSIVE BlockingLoop(_, _)
BlockingLoop(d, acc) ==
    LET Got(g) ==
            IF g.st = "ok" /\ g.data # <<>>
            THEN BlockingLoop(g.d, acc \o g.data)
            ELSE [out |-> acc, st |-> g.st, e |-> g.e, header |-> g.d.header]
    IN  Got(GzRead(d, MaxRead))

\* a decoder of either kind over a stream of which avail bytes have arrived
NewDecoder(bytes, avail, flag) ==
    IF flag THEN MultiGzDecoderNew(ReaderNew(bytes, avail))
            ELSE GzDecoderNew(ReaderNew(bytes, avail))

BlockingRun(bytes, flag) == BlockingLoop(NewDecoder(bytes, Len(bytes), flag), <<>>)

(***************************************************************************)
(* State.                                                                  *)
(*   phase    "enc": an encoder is being written to; "sink": it finished   *)
(*            and the sink holds the stream; "dec": a decoder is read from *)
(*   enc      the write-side encoder                                       *)
(*   sink     the stream the finished encoder returned                     *)
(*   written  the bytes the write calls accepted, in order                 *)
(*   dec      the decoder with the reader it owns                          *)
(*   out      the bytes the read calls returned, in order                  *)
(*   res      the outcome of the latest read call                          *)
(*   pending  Some(n) while a read into n bytes is inside its loop         *)
(*   ref      what the same stream yields from a source that never blocks  *)
(***************************************************************************)
VARIABLES phase, enc, sink, written, dec, out, res, pending, ref

vars == <<phase, enc, sink, written, dec, out, res, pending, ref>>

\* no decoder constructed yet
NoDecoder ==
    [inner |-> "None", part |-> GzHeaderPartialNew, pos |-> 0, buf |-> Zeros(8),
     err |-> None, header |-> None, crc |-> CrcNew, data |-> DecompressNew,
     multi |-> FALSE, r |-> ReaderNew(<<>>, 0),
     hstall |-> FALSE, produced |-> <<>>, verified |-> <<>>, rejected |-> None]

\* no read call made yet; after: an earlier call gave the final result
NoResult == [st |-> "new", n |-> 0, into |-> 0, e |-> None, after |-> FALSE]

NoRef == [out |-> <<>>, st |-> "new", e |-> None, header |-> None]

\* a decoder constructed over a stream of which avail bytes have arrived
InitDecoder(bytes, avail, flag) ==
    /\ dec = NewDecoder(bytes, avail, flag)
    /\ out = <<>>
    /\ res = NoResult
    /\ pending = None
    /\ ref = BlockingRun(bytes, flag)

Init ==
    /\ phase = "dec"
    /\ enc = GzEncoderNew(GzBuilderNew, <<>>, LevelDefault)
    /\ sink = <<>>
    /\ written = <<>>
    /\ \E bytes \in Sources, flag \in BOOLEAN :
         \E avail \in 0..Len(bytes) : InitDecoder(bytes, avail, flag)

\* all that is left of the stream arrives at the source
DeliverRest ==
    /\ phase = "dec"
    /\ dec.r.avail < Len(dec.r.bytes)
    /\ dec' = [dec EXCEPT !.r.avail = Len(dec.r.bytes)]
    /\ UNCHANGED <<phase, enc, sink, written, out, res, pending, ref>>

\* some of what is left arrives, the decoder being past a header: the bytes
\* of a header arrive in two pieces at most, the rest in any number
DeliverSome ==
    /\ phase = "dec"
    /\ dec.inner \in {"Body", "Finished"}
    /\ \E k \in 1..(Len(dec.r.bytes) - dec.r.avail - 1) :
         dec' = [dec EXCEPT !.r.avail = @ + k]
    /\ UNCHANGED <<phase, enc, sink, written, out, res, pending, ref>>

\* the effect of a read call, or of its next turn of the loop
Step(n) ==
    \E g \in {GzRead(dec, n)} :
        /\ dec' = g.d
        /\ out' = out \o g.data
        /\ res' = [st |-> g.st, n |-> Len(g.data), into |-> n, e |-> g.e,
                   after |-> res.after \/ IsFinal(res)]
        /\ pending' = IF g.st = "spin" THEN Some(n) ELSE None

\* GzDecoder::read(into)
Read ==
    /\ phase = "dec"
    /\ pending = None
    /\ res.st # "panic"
    /\ \E n \in 0..MaxRead : Step(n)
    /\ UNCHANGED <<phase, enc, sink, written, ref>>

\* a read call that met WouldBlock in the Header arm goes round its loop
Resume ==
    /\ phase = "dec"
    /\ pending # None
    /\ Step(pending[1])
    /\ UNCHANGED <<phase, enc, sink, written, ref>>

Next == DeliverRest \/ DeliverSome \/ Read \/ Resume

Spec == Init /\ [][Next]_vars

(***************************************************************************)
(* Round trip: a stream is written through the encoder, finished, and read *)
(* back through a single-member decoder over the finished bytes.           *)
(***************************************************************************)
InitRT ==
    /\ phase = "enc"
    /\ \E b \in Builders, lvl \in Levels : enc = GzEncoderNew(b, <<>>, lvl)
    /\ sink = <<>>
    /\ written = <<>>
    /\ dec = NoDecoder
    /\ out = <<>>
    /\ res = NoResult
    /\ pending = None
    /\ ref = NoRef

Chunks ==
    UNION { [1..k -> PayloadBytes] : k \in 0..MaxChunk }

\* EncoderWriter::write(buf)
EncWrite ==
    /\ phase = "enc"
    /\ \E buf \in Chunks :
         /\ Len(written) + Len(buf) <= MaxPayload
         /\ \E g \in {GzEncoderWrite(enc, buf)} :
                /\ enc' = g.g
                /\ written' = written \o Take(buf, g.n)
    /\ UNCHANGED <<phase, sink, dec, out, res, pending, ref>>

\* EncoderWriter::finish
EncFinish ==
    /\ phase = "enc"
    /\ \E f \in {GzEncoderFinish(enc)} :
           /\ enc' = f.g
           /\ sink' = f.w
    /\ phase' = "sink"
    /\ UNCHANGED <<written, dec, out, res, pending, ref>>

\* GzDecoder::new over the finished bytes
DecNew ==
    /\ phase = "sink"
    /\ phase' = "dec"
    /\ dec' = GzDecoderNew(ReaderNew(sink, Len(sink)))
    /\ UNCHANGED <<enc, sink, written, out, res, pending, ref>>

ReadRT ==
    /\ phase = "dec"
    /\ pending = None
    /\ \E n \in 0..MaxRead : Step(n)
    /\ UNCHANGED <<phase, enc, sink, written, ref>>

NextRT == EncWrite \/ EncFinish \/ DecNew \/ ReadRT

SpecRT == InitRT /\ [][NextRT]_vars

(***************************************************************************)
(* gz/bufread.rs: GzEncoder, the read-side gzip encoder.  It reads the     *)
(* uncompressed bytes from a buffered source through a CrcReader and a     *)
(* DEFLATE encoder and hands out the gzip stream.  The record g:           *)
(*   r, crc   the CrcReader: the source and the checksum of what the       *)
(*            DEFLATE encoder has consumed from it                         *)
(*   z        the DEFLATE encoder's codec                                  *)
(*   header   the header bytes;  pos  the cursor in the header, then in    *)
(*            the footer;  eof  the inner reader has reported its end      *)
(***************************************************************************)
\* a copy that leaves the cursor where it was
copyStuck(n, from, pos) ==
    [data |-> SubSeq(from, pos + 1, pos + Min(n, Len(from) - pos)), pos |-> pos]

\* copy(into, from, pos), into of length n.  Yields the bytes put at the
\* start of into and the new cursor.
copy(n, from, pos) ==
    [data |-> SubSeq(from, pos + 1, pos + Min(n, Len(from) - pos)),
     pos |-> pos + Min(n, Len(from) - pos)]

gz_encoder(header, r, lvl) ==
    [r |-> r, crc |-> CrcNew, z |-> CompressNew, header |-> header, pos |-> 0,
     eof |-> FALSE]

\* CrcReader::consume: the checksum takes the bytes that are consumed
CrcReaderConsume(g, amt) ==
    LET Filled(fb) ==
            [g EXCEPT !.crc = IF fb.st = "ok" THEN CrcUpdate(@, Take(fb.data, amt))
                                               ELSE @,
                      !.r = ReaderConsume(@, amt)]
    IN  Filled(ReaderFillBuf(g.r))

\* DeflateEncoder::read: zio::read over the CrcReader with the compressor.
\* Yields [g, st, data, e].
RECURSIVE DeflateEncoderRead(_, _)
DeflateEncoderRead(g, dstlen) ==
    LET Ran(eof, ret) ==
            LET read == ret.z.total_out - g.z.total_out
                consumed == ret.z.total_in - g.z.total_in
                g1 == [CrcReaderConsume(g, consumed) EXCEPT !.z = ret.z]
            IN  IF MustRetry(ret.rc, read, eof, dstlen)
                THEN DeflateEncoderRead(g1, dstlen)
                ELSE [g |-> g1, st |-> "ok", data |-> ret.out, e |-> None]
        Filled(fb) ==
            IF fb.st = "err"
            THEN [g |-> g, st |-> "err", data |-> <<>>, e |-> fb.e]
            ELSE LET eof == (fb.data = <<>>)
                     flush == IF eof THEN "Finish" ELSE "None"
                 IN  Ran(eof, Compress(g.z, fb.data, dstlen, flush))
    IN  Filled(ReaderFillBuf(g.r))

\* GzEncoder::read_footer(into), into of length n.  Yields [g, data].
read_footer(g, n) ==
    IF g.pos = 8
    THEN [g |-> g, data |-> <<>>]
    ELSE LET Copied(c) == [g |-> [g EXCEPT !.pos = c.pos], data |-> c.data]
         IN  Copied(copy(n, g.crc.sum \o g.crc.amt, g.pos))

\* GzEncoder::read(into), into of length n.  Yields [g, st, data, e]; data
\* is what the caller finds in the first Len(data) bytes of into.
GzEncoderRead(g, n) ==
    LET Footer(head, f) ==
            [g |-> f.g, st |-> "ok", e |-> None,
             data |-> Take(head \o f.data, Len(f.data))]
        Inner(head, zr) ==
            IF zr.st = "err"
            THEN [g |-> zr.g, st |-> "err", data |-> <<>>, e |-> zr.e]
            ELSE IF Len(zr.data) = 0
                 THEN Footer(head, read_footer([zr.g EXCEPT !.eof = TRUE, !.pos = 0],
                                               n - Len(head)))
                 ELSE [g |-> zr.g, st |-> "ok", data |-> head \o zr.data, e |-> None]
        Header(c) ==
            IF Len(c.data) = n
            THEN [g |-> [g EXCEPT !.pos = c.pos], st |-> "ok", data |-> c.data,
                  e |-> None]
            ELSE Inner(c.data,
                       DeflateEncoderRead([g EXCEPT !.pos = c.pos], n - Len(c.data)))
    IN  IF g.eof
        THEN Footer(<<>>, read_footer(g, n))
        ELSE IF g.pos < Len(g.header)
             THEN Header(copy(n, g.header, g.pos))
             ELSE Inner(<<>>, DeflateEncoderRead(g, n))

\* the payloads a read-side encoder is given
Payloads == UNION { [1..k -> PayloadBytes] : k \in 0..MaxPayload }

\* GzBuilder::buf_read over a source that holds the whole payload
InitGE ==
    /\ phase = "genc"
    /\ \E b \in Builders, lvl \in Levels, v \in Payloads :
         /\ enc = gz_encoder(into_header(b, lvl), ReaderNew(v, Len(v)), lvl)
         /\ written = v
    /\ sink = <<>>
    /\ dec = NoDecoder
    /\ out = <<>>
    /\ res = NoResult
    /\ pending = None
    /\ ref = NoRef

\* GzEncoder::read(into) with a destination that is not empty
ReadGE ==
    /\ phase = "genc"
    /\ \E n \in 1..MaxRead :
         \E g \in {GzEncoderRead(enc, n)} :
             /\ enc' = g.g
             /\ out' = out \o g.data
             /\ res' = [st |-> g.st, n |-> Len(g.data), into |-> n, e |-> g.e,
                        after |-> res.after \/ IsFinal(res)]
    /\ UNCHANGED <<phase, sink, written, dec, pending, ref>>

NextGE == ReadGE

SpecGE == InitGE /\ [][NextGE]_vars

(***************************************************************************)
(* A read-side encoder over a source whose bytes arrive over time: until   *)
(* they have arrived the source fails with WouldBlock.                     *)
(***************************************************************************)
InitWB ==
    /\ phase = "genc"
    /\ \E b \in Builders, v \in Payloads, a \in 0..MaxPayload :
         /\ a <= Len(v)
         /\ enc = gz_encoder(into_header(b, LevelDefault), ReaderNew(v, a), LevelDefault)
         /\ written = v
    /\ sink = <<>>
    /\ dec = NoDecoder
    /\ out = <<>>
    /\ res = NoResult
    /\ pending = None
    /\ ref = NoRef

\* more of the payload arrives at the source
DeliverWB ==
    /\ phase = "genc"
    /\ \E a \in (enc.r.avail + 1)..Len(enc.r.bytes) : enc' = [enc EXCEPT !.r.avail = a]
    /\ UNCHANGED <<phase, sink, written, dec, out, res, pending, ref>>

NextWB == ReadGE \/ DeliverWB

SpecWB == InitWB /\ [][NextWB]_vars

(***************************************************************************)
(* Reads of any length, the empty destination included, on a read-side     *)
(* encoder or on a decoder whose source holds the whole stream.            *)
(***************************************************************************)
InitZL ==
    \/ InitGE
    \/ /\ phase = "dec"
       /\ enc = GzEncoderNew(GzBuilderNew, <<>>, LevelDefault)
       /\ sink = <<>>
       /\ written = <<>>
       /\ \E bytes \in ValidSingles, flag \in BOOLEAN :
            InitDecoder(bytes, Len(bytes), flag)

\* GzEncoder::read(into)
ReadZL ==
    /\ phase = "genc"
    /\ \E n \in 0..MaxRead :
         \E g \in {GzEncoderRead(enc, n)} :
             /\ enc' = g.g
             /\ out' = out \o g.data
             /\ res' = [st |-> g.st, n |-> Len(g.data), into |-> n, e |-> g.e,
                        after |-> res.after \/ IsFinal(res)]
    /\ UNCHANGED <<phase, sink, written, dec, pending, ref>>

NextZL == ReadZL \/ Read

SpecZL == InitZL /\ [][NextZL]_vars

(***************************************************************************)
(* The read-driven adapter on its own: a DEFLATE decoder over a source     *)
(* that fills as it goes.  dec holds the source r and the codec z; ref the *)
(* stream: clen, the length of its compressed part, and v, what that       *)
(* holds; res also keeps eof and rc of the last codec step of the call.    *)
(***************************************************************************)
\* the complete DEFLATE stream of the bytes v
Deflated(v) == Compress(CompressNew, v, 8 * (Len(v) + 1), "Finish").out

ZStreams ==
    { [bytes |-> Deflated(v) \o j, clen |-> Len(Deflated(v)), v |-> v] :
        v \in Payloads, j \in {<<>>, <<9>>, <<1, 9>>} }
    \cup { [bytes |-> Take(Deflated(<<7, 0, 7>>), k),
            clen |-> Len(Deflated(<<7, 0, 7>>)), v |-> <<7, 0, 7>>] :
            k \in 0..(Len(Deflated(<<7, 0, 7>>)) - 1) }

InitZR ==
    /\ phase = "zdec"
    /\ \E s \in ZStreams :
         /\ ref = s
         /\ \E avail \in 0..Len(s.bytes) :
              dec = [r |-> ReaderNew(s.bytes, avail), z |-> DecompressNew]
    /\ enc = GzEncoderNew(GzBuilderNew, <<>>, LevelDefault)
    /\ sink = <<>>
    /\ written = <<>>
    /\ out = <<>>
    /\ res = [st |-> "new", n |-> 0, into |-> 0, e |-> None, after |-> FALSE,
              eof |-> FALSE, rc |-> "none"]
    /\ pending = None

\* more of the stream arrives at the source
DeliverZR ==
    /\ phase = "zdec"
    /\ \E k \in 1..(Len(dec.r.bytes) - dec.r.avail) :
         dec' = [dec EXCEPT !.r.avail = @ + k]
    /\ UNCHANGED <<phase, enc, sink, written, out, res, pending, ref>>

\* DeflateDecoder::read(into): zio::read over the source
ReadZR ==
    /\ phase = "zdec"
    /\ \E n \in 0..MaxRead :
         \E zr \in {ZioRead(dec.r, dec.z, n)} :
             /\ dec' = [r |-> zr.r, z |-> zr.z]
             /\ out' = out \o zr.data
             /\ res' = [st |-> zr.st, n |-> Len(zr.data), into |-> n, e |-> zr.e,
                        after |-> res.after \/ IsFinal(res),
                        eof |-> zr.eof, rc |-> zr.rc]
    /\ UNCHANGED <<phase, enc, sink, written, pending, ref>>

NextZR == DeliverZR \/ ReadZR

SpecZR == InitZR /\ [][NextZR]_vars

(***************************************************************************)
(* The write-driven adapter on its own: a DEFLATE encoder that writes to   *)
(* a sink.  enc is the Writer; sink what the sink holds once it has been   *)
(* taken out of the writer or the writer has been dropped; res.st names    *)
(* the last call and res.n what it returned (for flush: the number of      *)
(* bytes the sink held when its flush was called); ref.taken is what the   *)
(* sink held when it was taken.                                            *)
(***************************************************************************)
InitWF ==
    /\ phase = "wr"
    /\ enc = WriterNew(<<>>)
    /\ sink = <<>>
    /\ written = <<>>
    /\ dec = NoDecoder
    /\ out = <<>>
    /\ res = NoResult
    /\ pending = None
    /\ ref = [taken |-> None]

\* Write::write(buf)
WriteWF ==
    /\ phase = "wr"
    /\ \E buf \in Chunks :
         /\ Len(written) + Len(buf) <= MaxPayload
         /\ \E ww \in {WriterWrite(enc, buf)} :
                /\ enc' = ww.w
                /\ written' = written \o Take(buf, ww.n)
                /\ res' = [NoResult EXCEPT !.st = "write", !.n = ww.n,
                                           !.into = Len(buf)]
    /\ UNCHANGED <<phase, sink, dec, out, pending, ref>>

\* Write::flush
FlushWF ==
    /\ phase = "wr"
    /\ \E f \in {WriterFlush(enc)} :
           /\ enc' = f.w
           /\ res' = [NoResult EXCEPT !.st = "flush", !.n = f.at]
    /\ UNCHANGED <<phase, sink, written, dec, out, pending, ref>>

\* the encoder's finish: Writer::finish, then the sink is taken
FinishWF ==
    /\ phase = "wr"
    /\ \E t \in {take_inner(WriterFinish(enc))} :
           /\ enc' = t.w
           /\ sink' = t.obj[1]
           /\ ref' = [taken |-> t.obj]
    /\ phase' = "taken"
    /\ res' = [NoResult EXCEPT !.st = "finish"]
    /\ UNCHANGED <<written, dec, out, pending>>

\* Writer::into_inner: the sink is taken as it is
IntoInnerWF ==
    /\ phase = "wr"
    /\ \E t \in {take_inner(enc)} :
           /\ enc' = t.w
           /\ sink' = t.obj[1]
           /\ ref' = [taken |-> t.obj]
    /\ phase' = "taken"
    /\ res' = [NoResult EXCEPT !.st = "into_inner"]
    /\ UNCHANGED <<written, dec, out, pending>>

\* the writer is dropped: with its sink, which then holds what the drop
\* wrote, or after the sink was taken
DropWF ==
    /\ phase \in {"wr", "taken"}
    /\ \E w \in {WriterDrop(enc)} :
           /\ enc' = w
           /\ sink' = IF w.obj # None THEN w.obj[1] ELSE sink
    /\ phase' = "dropped"
    /\ res' = [NoResult EXCEPT !.st = IF phase = "wr" THEN "drop" ELSE res.st]
    /\ UNCHANGED <<written, dec, out, pending, ref>>

NextWF == WriteWF \/ FlushWF \/ FinishWF \/ IntoInnerWF \/ DropWF

SpecWF == InitWF /\ [][NextWF]_vars

(***************************************************************************)
(* Streams that may be corrupt, through the write-side decoder (enc is the *)
(* DecoderWriter's Writer, its sink a vector or a slice with room for a    *)
(* few bytes, written the bytes of the stream it has accepted) or through  *)
(* the read-side decoder (dec, as above).  ref is the stream.  res.st is   *)
(* the last call on the write side and res.rc what the codec reported      *)
(* last in it.                                                             *)
(***************************************************************************)
\* the byte put in place of one byte of a stream
BadByte == 6

\* the slices that serve as sinks have room for up to this many bytes
MaxRoom == 2

Corrupted(bytes, i) == [bytes EXCEPT ![i] = BadByte]

WDStreams ==
    { [bytes |-> Deflated(v), clen |-> Len(Deflated(v)), v |-> v] :
        v \in Payloads }
    \cup UNION { { [bytes |-> Corrupted(Deflated(v), i),
                       clen |-> Len(Deflated(v)), v |-> v] :
                       i \in 1..Min(11, Len(Deflated(v))) } :
                    v \in {<<>>, <<7>>, <<7, 0, 7>>} }

WDResult == [st |-> "new", n |-> 0, into |-> 0, e |-> None, after |-> FALSE,
             eof |-> FALSE, rc |-> "none"]

InitWD ==
    /\ \E s \in WDStreams :
         /\ ref = s
         /\ \/ /\ phase = "zdec"
               /\ dec = [r |-> ReaderNew(s.bytes, Len(s.bytes)), z |-> DecompressNew]
               /\ enc = DecoderWriterNew(<<>>)
            \/ /\ phase = "wd"
               /\ dec = [r |-> ReaderNew(<<>>, 0), z |-> DecompressNew]
               /\ \E room \in {None} \cup {Some(k) : k \in 0..MaxRoom} :
                    enc = [DecoderWriterNew(<<>>) EXCEPT !.room = room]
    /\ sink = <<>>
    /\ written = <<>>
    /\ out = <<>>
    /\ res = WDResult
    /\ pending = None

\* DecoderWriter::write(buf) with the next bytes of the stream
WriteWD ==
    /\ phase = "wd"
    /\ \E k \in 1..MaxChunk :
         /\ Len(written) + k <= Len(ref.bytes)
         /\ \E ww \in {WriterWrite(enc, SubSeq(ref.bytes, Len(written) + 1,
                                                Len(written) + k))} :
                /\ enc' = ww.w
                /\ written' = Take(ref.bytes, Len(written) + ww.n)
                /\ res' = [WDResult EXCEPT !.st = "write", !.n = ww.n, !.into = k,
                                           !.e = ww.w.e, !.rc = ww.rc]
                /\ phase' = IF ww.w.st \in {"panic", "hang"} THEN ww.w.st ELSE phase
    /\ UNCHANGED <<sink, dec, out, pending, ref>>

\* DecoderWriter::flush
FlushWD ==
    /\ phase = "wd"
    /\ \E f \in {WriterFlush(enc)} :
           /\ enc' = f.w
           /\ res' = [WDResult EXCEPT !.st = "flush", !.n = f.at, !.e = f.w.e]
           /\ phase' = IF f.w.st = "panic" THEN "panic" ELSE phase
    /\ UNCHANGED <<sink, written, dec, out, pending, ref>>

\* the writer is dropped with its sink
DropWD ==
    /\ phase = "wd"
    /\ \E w \in {WriterDrop(enc)} :
           /\ enc' = w
           /\ sink' = w.obj[1]
    /\ phase' = "dropped"
    /\ res' = [WDResult EXCEPT !.st = "drop"]
    /\ UNCHANGED <<written, dec, out, pending, ref>>

NextWD == WriteWD \/ FlushWD \/ DropWD \/ ReadZR

SpecWD == InitWD /\ [][NextWD]_vars

(***************************************************************************)
(* The write-side decoder written a complete stream and then more bytes.   *)
(***************************************************************************)
TWStreams ==
    { [bytes |-> Deflated(v) \o t, clen |-> Len(Deflated(v)), v |-> v] :
        v \in Payloads, t \in {<<0>>, <<7, 0>>} }

InitTW ==
    /\ \E s \in TWStreams : ref = s
    /\ phase = "wd"
    /\ dec = [r |-> ReaderNew(<<>>, 0), z |-> DecompressNew]
    /\ \E room \in {None} \cup {Some(k) : k \in 0..MaxRoom} :
         enc = [DecoderWriterNew(<<>>) EXCEPT !.room = room]
    /\ sink = <<>>
    /\ written = <<>>
    /\ out = <<>>
    /\ res = WDResult
    /\ pending = None

NextTW == WriteWD \/ FlushWD \/ DropWD

SpecTW == InitTW /\ [][NextTW]_vars

(***************************************************************************)
(* The write-side decoder over a sink that takes a few bytes, fails, and   *)
(* later takes more (a pipe that is drained, a socket that is not ready):  *)
(* the caller repeats the call that failed.                                *)
(***************************************************************************)
\* the sink is given no more room once it holds this many bytes
MaxSink == 5

InitRW ==
    /\ \E v \in Payloads : ref = [bytes |-> Deflated(v), clen |-> Len(Deflated(v)), v |-> v]
    /\ phase = "wd"
    /\ dec = [r |-> ReaderNew(<<>>, 0), z |-> DecompressNew]
    /\ \E k \in 0..MaxRoom : enc = [DecoderWriterNew(<<>>) EXCEPT !.room = Some(k)]
    /\ sink = <<>>
    /\ written = <<>>
    /\ out = <<>>
    /\ res = WDResult
    /\ pending = None

\* the sink is ready for more bytes
RoomRW ==
    /\ phase = "wd"
    /\ Len(enc.obj[1]) < MaxSink
    /\ \E k \in 1..MaxRoom :
         /\ k > enc.room[1]
         /\ enc' = [enc EXCEPT !.room = Some(k)]
    /\ UNCHANGED <<phase, sink, written, dec, out, res, pending, ref>>

NextRW == WriteWD \/ FlushWD \/ RoomRW

SpecRW == InitRW /\ [][NextRW]_vars

(***************************************************************************)
(* The write-side gzip encoder over a sink that takes a few bytes, fails   *)
(* and later takes more.  enc is the encoder [inner, crc, header]; ref     *)
(* holds the header it was built with and, as history, the number of       *)
(* header bytes the sink has accepted.                                     *)
(***************************************************************************)
\* write_all of bytes to the sink of the writer w, past the codec
SinkWriteAll(w, bytes) ==
    IF w.room = None
    THEN [w EXCEPT !.obj = Some(@[1] \o bytes), !.st = "ok", !.e = None]
    ELSE IF Len(bytes) <= w.room[1]
         THEN [w EXCEPT !.obj = Some(@[1] \o bytes), !.st = "ok", !.e = None,
                        !.room = Some(@[1] - Len(bytes))]
         ELSE [w EXCEPT !.obj = Some(@[1] \o Take(bytes, w.room[1])),
                        !.room = Some(0), !.st = "err", !.e = WriteZero]

\* EncoderWriter::write(buf) over such a sink.  Yields [g, n, raw]: Ok(n)
\* when g.inner.st = "ok"; raw is the number of header bytes the sink took.
EncoderWriterWrite(g, input) ==
    LET Wrote(ww, raw) ==
            [g |-> [g EXCEPT !.inner = ww.w, !.header = <<>>,
                             !.crc = IF ww.w.st = "ok"
                                     THEN CrcUpdate(@, Take(input, ww.n)) ELSE @],
             n |-> ww.n, raw |-> raw]
        Raw(w0) ==
            IF w0.st = "err"
            THEN [g |-> [g EXCEPT !.inner = w0], n |-> 0,
                  raw |-> Len(w0.obj[1]) - Len(g.inner.obj[1])]
            ELSE Wrote(WriterWrite(w0, input), Len(g.header))
    IN  IF Len(g.header) # 0
        THEN Raw(SinkWriteAll(g.inner, g.header))
        ELSE Wrote(WriterWrite(g.inner, input), 0)

\* EncoderWriter::do_finish over such a sink.  Yields [g, raw, w]: Ok(w)
\* when g.inner.st = "ok", else w is None.
do_finish(g) ==
    LET Trailed(t, raw) ==
            [g |-> [g EXCEPT !.inner = [t EXCEPT !.obj = None]],
             raw |-> raw,
             w |-> IF t.st = "ok" THEN t.obj ELSE None]
        Finished(f, raw) ==
            IF f.st # "ok"
            THEN [g |-> [g EXCEPT !.inner = f],
                  raw |-> raw, w |-> None]
            ELSE Trailed(SinkWriteAll(f, Trailer(g.crc)), raw)
        Raw(w0) ==
            IF w0.st = "err"
            THEN [g |-> [g EXCEPT !.inner = w0],
                  raw |-> Len(w0.obj[1]) - Len(g.inner.obj[1]), w |-> None]
            ELSE Finished(WriterFinish(w0), Len(g.header))
    IN  IF Len(g.header) # 0
        THEN Raw(SinkWriteAll(g.inner, g.header))
        ELSE Finished(WriterFinish(g.inner), 0)

\* Drop for EncoderWriter: `let _ = self.do_finish()` unless the sink was
\* taken
EncoderWriterDrop(g) ==
    IF g.inner.obj # None THEN do_finish(g) ELSE [g |-> g, raw |-> 0, w |-> None]

\* the room the sinks are given
Rooms == {1, Len(into_header(GzBuilderNew, LevelDefault)) + MaxRoom}

InitHO ==
    /\ phase = "gw"
    /\ \E k \in Rooms :
         enc = [GzEncoderNew(GzBuilderNew, <<>>, LevelDefault) EXCEPT
                    !.inner.room = Some(k)]
    /\ ref = [header |-> into_header(GzBuilderNew, LevelDefault), raw |-> 0]
    /\ sink = <<>>
    /\ written = <<>>
    /\ dec = NoDecoder
    /\ out = <<>>
    /\ res = NoResult
    /\ pending = None

\* Write::write(buf)
WriteHO ==
    /\ phase = "gw"
    /\ \E buf \in Chunks :
         /\ Len(written) + Len(buf) <= MaxPayload
         /\ \E r \in {EncoderWriterWrite(enc, buf)} :
                /\ enc' = r.g
                /\ written' = written \o Take(buf, r.n)
                /\ ref' = [ref EXCEPT !.raw = @ + r.raw]
                /\ res' = [NoResult EXCEPT !.st = "write", !.n = r.n,
                                           !.into = Len(buf), !.e = r.g.inner.e]
    /\ UNCHANGED <<phase, sink, dec, out, pending>>

\* EncoderWriter::finish(self): do_finish; after a failure the encoder,
\* which finish took by value, is still to be dropped
FinishHO ==
    /\ phase = "gw"
    /\ \E r \in {do_finish(enc)} :
           /\ enc' = r.g
           /\ ref' = [ref EXCEPT !.raw = @ + r.raw]
           /\ sink' = IF r.w # None THEN r.w[1] ELSE sink
           /\ phase' = IF r.w # None THEN "taken" ELSE "failed"
           /\ res' = [NoResult EXCEPT !.st = "finish", !.e = r.g.inner.e]
    /\ UNCHANGED <<written, dec, out, pending>>

\* the encoder is dropped
DropHO ==
    /\ phase \in {"gw", "failed"}
    /\ \E r \in {EncoderWriterDrop(enc)} :
           /\ enc' = r.g
           /\ ref' = [ref EXCEPT !.raw = @ + r.raw]
           /\ sink' = IF r.w # None THEN r.w[1] ELSE sink
    /\ phase' = "dropped"
    /\ res' = [NoResult EXCEPT !.st = "drop"]
    /\ UNCHANGED <<written, dec, out, pending>>

\* the sink is ready for more bytes
RoomHO ==
    /\ phase \in {"gw", "failed"}
    /\ enc.inner.obj # None
    /\ Len(enc.inner.obj[1]) < Len(ref.header) + MaxSink
    /\ \E k \in Rooms :
         /\ k > enc.inner.room[1]
         /\ enc' = [enc EXCEPT !.inner.room = Some(k)]
    /\ UNCHANGED <<phase, sink, written, dec, out, res, pending, ref>>

NextHO == WriteHO \/ FinishHO \/ DropHO \/ RoomHO

SpecHO == InitHO /\ [][NextHO]_vars

(***************************************************************************)
(* Nested adapters: a write-side encoder whose sink is a write-side        *)
(* decoder whose sink is a vector.  enc is the outer Writer until its      *)
(* finish, then the inner one; sink the vector once it has been taken.     *)
(***************************************************************************)
InitNW ==
    /\ phase = "nest"
    /\ enc = [WriterNew(DecoderWriterNew(<<>>)) EXCEPT !.nested = TRUE]
    /\ sink = <<>>
    /\ written = <<>>
    /\ dec = NoDecoder
    /\ out = <<>>
    /\ res = NoResult
    /\ pending = None
    /\ ref = [taken |-> None]

\* Write::write(buf) on the outer encoder
WriteNW ==
    /\ phase = "nest"
    /\ \E buf \in Chunks :
         /\ Len(written) + Len(buf) <= MaxPayload
         /\ \E ww \in {WriterWrite(enc, buf)} :
                /\ enc' = ww.w
                /\ written' = written \o Take(buf, ww.n)
                /\ res' = [NoResult EXCEPT !.st = "write", !.n = ww.n,
                                           !.into = Len(buf)]
    /\ UNCHANGED <<phase, sink, dec, out, pending, ref>>

\* Write::flush on the outer encoder
FlushNW ==
    /\ phase = "nest"
    /\ \E f \in {WriterFlush(enc)} :
           /\ enc' = f.w
           /\ res' = [NoResult EXCEPT !.st = "flush", !.n = f.at]
    /\ UNCHANGED <<phase, sink, written, dec, out, pending, ref>>

\* finish on the outer encoder: it yields its sink, the decoder
FinishOuterNW ==
    /\ phase = "nest"
    /\ \E t \in {take_inner(WriterFinish(enc))} :
           /\ t.w.st = "ok"
           /\ enc' = t.obj[1]
    /\ phase' = "inner"
    /\ res' = [NoResult EXCEPT !.st = "finish"]
    /\ UNCHANGED <<sink, written, dec, out, pending, ref>>

\* finish on the decoder: it yields the vector
FinishInnerNW ==
    /\ phase = "inner"
    /\ \E t \in {take_inner(WriterFinish(enc))} :
           /\ enc' = t.w
           /\ sink' = t.obj[1]
           /\ ref' = [taken |-> t.obj]
    /\ phase' = "done"
    /\ res' = [NoResult EXCEPT !.st = "finish"]
    /\ UNCHANGED <<written, dec, out, pending>>

NextNW == WriteNW \/ FlushNW \/ FinishOuterNW \/ FinishInnerNW

SpecNW == InitNW /\ [][NextNW]_vars

(***************************************************************************)
(* reset on a write-side encoder or decoder.  ref.s1 is what is written    *)
(* before the reset and ref.s2 after it (bytes for the encoder, a DEFLATE  *)
(* stream for the decoder), ref.w1 how much of s1 had been written at the  *)
(* reset, ref.a the sink that reset returned.  ref.fresh is an adapter     *)
(* constructed anew that is given the calls made after the reset.          *)
(***************************************************************************)
\* of what is written before the reset any prefix may have been written
FirstPayloads == { v \in Payloads : Len(v) = MaxPayload /\ v[1] = 7 }

SecondPayloads == { v \in Payloads : v = <<>> \/ (Len(v) = MaxPayload /\ v[1] = 0) }

InitRS ==
    /\ phase = "rs1"
    /\ \E v1 \in FirstPayloads, v2 \in SecondPayloads :
         \/ /\ enc = WriterNew(<<>>)
            /\ ref = [kind |-> "enc", s1 |-> v1, s2 |-> v2, w1 |-> <<>>,
                      a |-> None, fresh |-> WriterNew(<<>>)]
         \/ /\ enc = DecoderWriterNew(<<>>)
            /\ ref = [kind |-> "dec", s1 |-> Deflated(v1), s2 |-> Deflated(v2),
                      w1 |-> <<>>, a |-> None, fresh |-> DecoderWriterNew(<<>>)]
    /\ sink = <<>>
    /\ written = <<>>
    /\ dec = NoDecoder
    /\ out = <<>>
    /\ res = NoResult
    /\ pending = None

\* Write::write(buf) with the next bytes to write
WriteRS ==
    /\ phase \in {"rs1", "rs2"}
    /\ \E k \in 1..MaxChunk :
         \E src \in {IF phase = "rs1" THEN ref.s1 ELSE ref.s2} :
            /\ Len(written) + k <= Len(src)
            /\ \E buf \in {SubSeq(src, Len(written) + 1, Len(written) + k)} :
                 \E ww \in {WriterWrite(enc, buf)} :
                    /\ enc' = ww.w
                    /\ written' = written \o Take(buf, ww.n)
                    /\ res' = [NoResult EXCEPT !.st = "write", !.n = ww.n,
                                               !.into = k]
                    /\ ref' = IF phase = "rs1" THEN ref
                              ELSE [ref EXCEPT !.fresh = WriterWrite(@, buf).w]
    /\ UNCHANGED <<phase, sink, dec, out, pending>>

\* Write::flush
FlushRS ==
    /\ phase \in {"rs1", "rs2"}
    /\ \E f \in {WriterFlush(enc)} :
           /\ enc' = f.w
           /\ res' = [NoResult EXCEPT !.st = "flush", !.n = f.at]
    /\ ref' = IF phase = "rs1" THEN ref
              ELSE [ref EXCEPT !.fresh = WriterFlush(@).w]
    /\ UNCHANGED <<phase, sink, written, dec, out, pending>>

\* reset(Vec::new())
ResetRS ==
    /\ phase = "rs1"
    /\ \E r \in {WriterReset(enc, <<>>)} :
           /\ enc' = r.w
           /\ ref' = [ref EXCEPT !.a = r.old, !.w1 = written]
    /\ written' = <<>>
    /\ phase' = "rs2"
    /\ res' = [NoResult EXCEPT !.st = "reset"]
    /\ UNCHANGED <<sink, dec, out, pending>>

\* finish after the reset
FinishRS ==
    /\ phase = "rs2"
    /\ \E t \in {take_inner(WriterFinish(enc))} :
           /\ enc' = t.w
           /\ sink' = t.obj[1]
    /\ ref' = [ref EXCEPT !.fresh = WriterFinish(@)]
    /\ phase' = "done"
    /\ res' = [NoResult EXCEPT !.st = "finish"]
    /\ UNCHANGED <<written, dec, out, pending>>

NextRS == WriteRS \/ FlushRS \/ ResetRS \/ FinishRS

SpecRS == InitRS /\ [][NextRS]_vars

(***************************************************************************)
(* Decoding in chunks (tests/decompress_chunk.rs): one Decompress handle,  *)
(* a stream that was flushed but not finished, and an output buffer of     *)
(* ref.cap bytes that every call starts afresh.  enc is the handle, out    *)
(* what the loop has collected.                                            *)
(***************************************************************************)
\* an empty stored block, not final: the mark a sync flush leaves
SyncMark == StoredBlock(FALSE, <<>>)

\* what the compressor has emitted for v after a sync flush
SyncFlushed(v) == Compress(CompressNew, v, 8 * (Len(v) + 1), "Sync").out

PDStreams ==
    { [bytes |-> SyncFlushed(v) \o m, v |-> v] :
        v \in Payloads, m \in {<<>>, SyncMark} }

\* the whole input every time, whatever was consumed before
ChunkInputAll(bytes, z) == bytes

\* &input[decompress.total_in() as usize..]
ChunkInput(bytes, z) == Drop(bytes, z.total_in)

\* the output of one call over the whole input with room for all of it
OneShot(bytes) == Decompress(DecompressNew, bytes, Len(bytes) + 1, "None").out

PDResult == [st |-> "new", rc |-> "none", n |-> 0, consumed |-> 0, avail |-> 0,
             left |-> 0, calls |-> 0]

InitPD ==
    /\ phase = "chunk"
    /\ \E s \in PDStreams, cap \in 1..MaxRead :
         ref = [bytes |-> s.bytes, v |-> s.v, cap |-> cap]
    /\ enc = DecompressNew
    /\ out = <<>>
    /\ res = PDResult
    /\ sink = <<>>
    /\ written = <<>>
    /\ dec = NoDecoder
    /\ pending = None

\* one turn of the loop: a call, its output appended, and the break
DecompressPD ==
    /\ phase = "chunk"
    /\ \E input \in {ChunkInput(ref.bytes, enc)} :
         \E rv \in {Decompress(enc, input, ref.cap, "None")} :
             /\ enc' = rv.z
             /\ out' = IF rv.rc = "DataError" THEN out ELSE out \o rv.out
             /\ res' = [st |-> "call", rc |-> rv.rc, n |-> Len(rv.out),
                        consumed |-> rv.z.total_in - enc.total_in,
                        avail |-> Len(input),
                        left |-> Len(OneShot(ref.bytes)) - Len(out),
                        calls |-> res.calls + 1]
             /\ phase' = IF rv.rc \in {"DataError", "StreamEnd"} THEN "panic"
                         ELSE IF rv.rc = "BufError" /\ Len(rv.out) = 0
                              THEN "chunked"
                              ELSE "chunk"
    /\ UNCHANGED <<sink, written, dec, pending, ref>>

NextPD == DecompressPD

SpecPD == InitPD /\ [][NextPD]_vars

(***************************************************************************)
(* The byte counters of a codec handle.  Counts are little-endian          *)
(* sequences of 16-bit limbs: c_uint and u32 have 2, u64 has 4; c_ulong    *)
(* has 2 or 4 as the target decides.  enc holds the engine's stream        *)
(* (mz_stream.total_in, total_out: c_ulong) and the backend's own u64      *)
(* counters; ref the exact sums (5 limbs, never full within the bounds)    *)
(* and what the handle reported before the last call.                      *)
(***************************************************************************)
Limb == 256 * 256

\* codec calls made on one handle
MaxCalls == 3

LimbZero(n) == [i \in 1..n |-> 0]

\* x + y wrapping at the width of x
RECURSIVE LimbAddAt(_, _, _, _)
LimbAddAt(x, y, i, carry) ==
    IF i > Len(x) THEN x
    ELSE LET s == x[i] + (IF i <= Len(y) THEN y[i] ELSE 0) + carry
         IN  LimbAddAt([x EXCEPT ![i] = s % Limb], y, i + 1, s \div Limb)

LimbAdd(x, y) == LimbAddAt(x, y, 1, 0)

\* `as u64` of a narrower count
AsU64(x) == [i \in 1..4 |-> IF i <= Len(x) THEN x[i] ELSE 0]

\* the bytes one call may consume or produce: avail_in and avail_out are
\* c_uint, so up to 2^32 - 1
StepAmounts == { <<0, 0>>, <<1, 0>>, <<0, 32768>>, <<65535, 65535>> }

\* mz_deflate / mz_inflate: the engine advances its pointers and its counters
EngineRun(z, ci, co) ==
    [z EXCEPT !.raw_in = LimbAdd(@, ci), !.raw_out = LimbAdd(@, co)]

\* CDeflate::compress, CInflate::decompress: the backend adds what the
\* pointers moved by to its own counters
BackendRun(z, ci, co) ==
    [EngineRun(z, ci, co) EXCEPT !.total_in = LimbAdd(@, ci),
                                 !.total_out = LimbAdd(@, co)]

\* CDeflate::reset, CInflate::reset; mz_deflateReset zeroes the engine's
BackendReset(z) ==
    [z EXCEPT !.raw_in = LimbZero(Len(@)), !.raw_out = LimbZero(Len(@)),
              !.total_in = LimbZero(4), !.total_out = LimbZero(4)]

\* Backend::total_in, Backend::total_out of ffi.rs
BackendTotalIn(z) == z.total_in

BackendTotalOut(z) == z.total_out

\* Compress::total_in, Compress::total_out of mem.rs (Decompress alike):
\* `self.inner.raw.total_in as u64`
MemTotalIn(z) == AsU64(z.raw_in)

MemTotalOut(z) == AsU64(z.raw_out)

InitCT ==
    /\ phase = "count"
    /\ \E ulong \in {2, 4} :
         enc = [raw_in |-> LimbZero(ulong), raw_out |-> LimbZero(ulong),
                total_in |-> LimbZero(4), total_out |-> LimbZero(4)]
    /\ ref = [sum_in |-> LimbZero(5), sum_out |-> LimbZero(5), calls |-> 0,
              prev_in |-> LimbZero(4), prev_out |-> LimbZero(4),
              bprev_in |-> LimbZero(4), bprev_out |-> LimbZero(4)]
    /\ sink = <<>>
    /\ written = <<>>
    /\ dec = NoDecoder
    /\ out = <<>>
    /\ res = NoResult
    /\ pending = None

\* one compress or decompress call
RunCT ==
    /\ phase = "count"
    /\ ref.calls < MaxCalls
    /\ \E ci \in StepAmounts, co \in StepAmounts :
         /\ enc' = BackendRun(enc, ci, co)
         /\ ref' = [sum_in |-> LimbAdd(ref.sum_in, ci),
                    sum_out |-> LimbAdd(ref.sum_out, co),
                    calls |-> ref.calls + 1,
                    prev_in |-> MemTotalIn(enc), prev_out |-> MemTotalOut(enc),
                    bprev_in |-> BackendTotalIn(enc),
                    bprev_out |-> BackendTotalOut(enc)]
    /\ res' = [NoResult EXCEPT !.st = "run"]
    /\ UNCHANGED <<phase, sink, written, dec, out, pending>>

\* reset
ResetCT ==
    /\ phase = "count"
    /\ res.st = "run"
    /\ enc' = BackendReset(enc)
    /\ ref' = [ref EXCEPT !.sum_in = LimbZero(5), !.sum_out = LimbZero(5),
                          !.prev_in = LimbZero(4), !.prev_out = LimbZero(4),
                          !.bprev_in = LimbZero(4), !.bprev_out = LimbZero(4)]
    /\ res' = [NoResult EXCEPT !.st = "reset"]
    /\ UNCHANGED <<phase, sink, written, dec, out, pending>>

NextCT == RunCT \/ ResetCT

SpecCT == InitCT /\ [][NextCT]_vars

(***************************************************************************)
(* Round trips of the header fields: the builder is kept in ref.           *)
(***************************************************************************)
\* length of the long extra field (more than one byte of XLEN)
LongExtra == 300

ExtraFields == {None, Some(<<>>), Some(<<5>>), Some(<<5, 0>>),
                Some([i \in 1..LongExtra |-> 5])}

NameFields == {None, Some(<<>>), Some(<<97>>), Some(<<97, 98>>)}

AllBuilders ==
    { [extra |-> x, filename |-> f, comment |-> c, operating_system |-> o,
       mtime |-> t] :
        x \in ExtraFields, f \in NameFields, c \in NameFields,
        o \in {None, Some(3), Some(0)}, t \in {ZeroWord, <<1, 2, 3, 4>>} }

InitHD ==
    /\ phase = "enc"
    /\ \E b \in AllBuilders, lvl \in Levels :
         /\ enc = GzEncoderNew(b, <<>>, lvl)
         /\ ref = b
    /\ sink = <<>>
    /\ written = <<>>
    /\ dec = NoDecoder
    /\ out = <<>>
    /\ res = NoResult
    /\ pending = None

\* EncoderWriter::write of one byte
EncWriteHD ==
    /\ phase = "enc"
    /\ written = <<>>
    /\ \E g \in {GzEncoderWrite(enc, <<7>>)} :
           /\ enc' = g.g
           /\ written' = Take(<<7>>, g.n)
    /\ UNCHANGED <<phase, sink, dec, out, res, pending, ref>>

NextHD == EncWriteHD \/ EncFinish \/ DecNew \/ ReadRT

SpecHD == InitHD /\ [][NextHD]_vars

(***************************************************************************)
(* Extra fields up to and beyond what the two bytes of XLEN can count.     *)
(* ref is the builder, enc the header into_header makes of it, dec the     *)
(* parser of gz/mod.rs over a source that holds the whole header:          *)
(* [state, pos, flg, xlen, extra, filename, comment, name_at, st, e],      *)
(* where pos counts the bytes read and name_at is, as history, pos at the  *)
(* start of the Filename state.                                            *)
(***************************************************************************)
\* the number of values of the u16 XLEN
XlenMod == 256 * 256

\* n bytes of an extra field
Fill(n) == SubSeq([i \in 1..n |-> 5], 1, n)

XLExtras ==
    {None} \cup { Some(Fill(n)) :
                    n \in {0, 1, LongExtra, XlenMod - 1, XlenMod, XlenMod + 1} }

XLBuilders ==
    { [GzBuilderNew EXCEPT !.extra = x, !.filename = f, !.comment = c] :
        x \in XLExtras, f \in {None, Some(<<97>>)}, c \in {None, Some(<<98>>)} }

ParserNew ==
    [state |-> "New", pos |-> 0, flg |-> 0, xlen |-> 0, extra |-> None,
     filename |-> None, comment |-> None, name_at |-> 0, st |-> "ok", e |-> None]

\* the position of the first zero byte of h after pos, or the end of h
ZeroAfter(h, pos) ==
    IF \E i \in (pos + 1)..Len(h) : h[i] = 0
    THEN CHOOSE i \in (pos + 1)..Len(h) :
             h[i] = 0 /\ \A j \in (pos + 1)..(i - 1) : h[j] # 0
    ELSE Len(h)

\* the bytes `for byte in r.bytes()` leaves in the field: those before the
\* zero byte at position z, or all of them when the input ended
CStrField(h, pos, z) ==
    IF z > pos /\ h[z] = 0 THEN SubSeq(h, pos + 1, z - 1) ELSE SubSeq(h, pos + 1, z)

\* one arm of the loop of read_gz_header_part over the bytes h
HeaderPartArm(p, h) ==
    LET Short(n) == Len(h) - p.pos < n
        Eof == [p EXCEPT !.st = "err", !.e = UnexpectedEof]
        Start(header) ==
            IF ~MagicOk(header) \/ ~MethodOk(header)
            THEN [p EXCEPT !.st = "err", !.e = bad_header]
            ELSE [p EXCEPT !.flg = header[4], !.pos = @ + 10, !.state = "Xlen"]
        Name(z) ==
            [p EXCEPT !.filename = Some(CStrField(h, p.pos, z)), !.pos = z,
                      !.name_at = p.pos, !.state = "Comment"]
        Comment(z) ==
            [p EXCEPT !.comment = Some(CStrField(h, p.pos, z)), !.pos = z,
                      !.state = "Crc"]
        Crc(stored, calced) ==
            IF stored # calced THEN [p EXCEPT !.st = "err", !.e = corrupt]
            ELSE [p EXCEPT !.pos = @ + 2, !.state = "Done"]
    IN  CASE p.state = "Start" ->
                IF Short(10) THEN Eof ELSE Start(SubSeq(h, p.pos + 1, p.pos + 10))
          [] p.state = "Xlen" ->
                IF ~HasFlag(p.flg, FEXTRA) THEN [p EXCEPT !.state = "Extra"]
                ELSE IF Short(2) THEN Eof
                ELSE [p EXCEPT !.xlen = h[p.pos + 1] + 256 * h[p.pos + 2],
                               !.pos = @ + 2, !.state = "Extra"]
          [] p.state = "Extra" ->
                IF ~HasFlag(p.flg, FEXTRA) THEN [p EXCEPT !.state = "Filename"]
                ELSE IF Short(p.xlen) THEN Eof
                ELSE [p EXCEPT !.extra = Some(SubSeq(h, p.pos + 1, p.pos + p.xlen)),
                               !.pos = @ + p.xlen, !.state = "Filename"]
          [] p.state = "Filename" ->
                IF ~HasFlag(p.flg, FNAME)
                THEN [p EXCEPT !.name_at = p.pos, !.state = "Comment"]
                ELSE Name(ZeroAfter(h, p.pos))
          [] p.state = "Comment" ->
                IF ~HasFlag(p.flg, FCOMMENT) THEN [p EXCEPT !.state = "Crc"]
                ELSE Comment(ZeroAfter(h, p.pos))
          [] p.state = "Crc" ->
                IF ~HasFlag(p.flg, FHCRC) THEN [p EXCEPT !.state = "Done"]
                ELSE IF Short(2) THEN Eof
                ELSE Crc(<<h[p.pos + 1], h[p.pos + 2]>>,
                         Take(Crc32From(ZeroWord, Take(h, p.pos)), 2))

InitXL ==
    /\ phase = "xl"
    /\ \E b \in XLBuilders : ref = b
    /\ enc = <<>>
    /\ dec = ParserNew
    /\ sink = <<>>
    /\ written = <<>>
    /\ out = <<>>
    /\ res = NoResult
    /\ pending = None

\* GzBuilder::into_header
BuildXL ==
    /\ phase = "xl"
    /\ dec.state = "New"
    /\ enc' = into_header(ref, LevelDefault)
    /\ dec' = [dec EXCEPT !.state = "Start"]
    /\ UNCHANGED <<phase, sink, written, out, res, pending, ref>>

\* read_gz_header_part: one pass of its loop
StepXL ==
    /\ phase = "xl"
    /\ dec.state \notin {"New", "Done"}
    /\ dec.st = "ok"
    /\ dec' = HeaderPartArm(dec, enc)
    /\ UNCHANGED <<phase, enc, sink, written, out, res, pending, ref>>

NextXL == BuildXL \/ StepXL

SpecXL == InitXL /\ [][NextXL]_vars

(***************************************************************************)
(* Encoders that have already taken many bytes.  A count of bytes is kept  *)
(* here as [hi, lo], standing for hi * 2^16 + lo with lo < 2^16, so that   *)
(* counts of 2^32 and more can be written down; sum is the checksum of the *)
(* bytes taken so far.                                                     *)
(***************************************************************************)
\* the u32 the code holds for a count: the count modulo 2^32
CountWord(hi, lo) == <<lo % 256, lo \div 256, hi % 256, (hi \div 256) % 256>>

Seeds ==
    { [hi |-> 0, lo |-> 0, sum |-> ZeroWord],
      [hi |-> 0, lo |-> 255, sum |-> <<134, 166, 16, 54>>],
      [hi |-> 0, lo |-> 65535, sum |-> <<134, 166, 16, 54>>],
      [hi |-> 65535, lo |-> 65534, sum |-> <<134, 166, 16, 54>>],
      [hi |-> 65535, lo |-> 65535, sum |-> <<1, 0, 0, 0>>],
      [hi |-> 65536, lo |-> 5, sum |-> <<134, 166, 16, 54>>] }

\* the Crc after the bytes of a seed
SeedCrc(c) == [amt |-> CountWord(c.hi, c.lo), sum |-> c.sum]

\* a write-side or a read-side encoder that has taken the bytes of a seed
InitTR ==
    /\ \E c \in Seeds :
         /\ ref = c
         /\ \/ /\ phase = "enc"
               /\ enc = [GzEncoderNew(GzBuilderNew, <<>>, LevelDefault)
                            EXCEPT !.crc = SeedCrc(c)]
               /\ written = <<>>
            \/ /\ phase = "genc"
               /\ \E v \in Payloads :
                    /\ enc = [gz_encoder(into_header(GzBuilderNew, LevelDefault),
                                         ReaderNew(v, Len(v)), LevelDefault)
                                 EXCEPT !.crc = SeedCrc(c)]
                    /\ written = v
    /\ sink = <<>>
    /\ dec = NoDecoder
    /\ out = <<>>
    /\ res = NoResult
    /\ pending = None

NextTR == EncWrite \/ EncFinish \/ ReadGE

SpecTR == InitTR /\ [][NextTR]_vars

(***************************************************************************)
(* Crc::combine.  The hasher combines two checksums as zlib's              *)
(* crc32_combine does: the first checksum is taken through the operator    *)
(* that appends len2 zero bytes, a 32 x 32 matrix over GF(2) found by      *)
(* repeated squaring, and the second is xored in.  A matrix is the         *)
(* sequence of its 32 columns, each a word.                                *)
(***************************************************************************)
GF2_DIM == 32

\* 1 << k on a byte
ByteBit == <<1, 2, 4, 8, 16, 32, 64, 128>>

\* 1 << k
WordBit(k) == [i \in 1..4 |-> IF i - 1 = k \div 8 THEN ByteBit[(k % 8) + 1] ELSE 0]

\* (vec >> k) & 1
WordTest(vec, k) == (vec[(k \div 8) + 1] \div ByteBit[(k % 8) + 1]) % 2 = 1

\* gf2_matrix_times(mat, vec): the xor of the columns of mat that the set
\* bits of vec select, columns lo..hi here (halved, to keep the evaluation
\* shallow)
RECURSIVE gf2_matrix_times_at(_, _, _, _)
gf2_matrix_times_at(mat, vec, lo, hi) ==
    IF lo = hi
    THEN (IF WordTest(vec, lo - 1) THEN mat[lo] ELSE ZeroWord)
    ELSE WordXor(gf2_matrix_times_at(mat, vec, lo, (lo + hi) \div 2),
                 gf2_matrix_times_at(mat, vec, ((lo + hi) \div 2) + 1, hi))

gf2_matrix_times(mat, vec) == gf2_matrix_times_at(mat, vec, 1, GF2_DIM)

\* gf2_matrix_square(square, mat): column n of the square is mat times
\* column n of mat
RECURSIVE gf2_matrix_square_at(_, _, _)
gf2_matrix_square_at(mat, lo, hi) ==
    IF lo = hi
    THEN <<gf2_matrix_times(mat, mat[lo])>>
    ELSE gf2_matrix_square_at(mat, lo, (lo + hi) \div 2)
         \o gf2_matrix_square_at(mat, ((lo + hi) \div 2) + 1, hi)

gf2_matrix_square(mat) == gf2_matrix_square_at(mat, 1, GF2_DIM)

\* the operator for one zero bit: the polynomial, then the shifts
OddOne == <<CrcPoly>> \o [n \in 1..(GF2_DIM - 1) |-> WordBit(n - 1)]

\* the operator for four zero bits
OddFour == gf2_matrix_square(gf2_matrix_square(OddOne))

\* the loop of combine: square, apply when the low bit of len2 is set, halve
RECURSIVE CombineLoop(_, _, _)
CombineLoop(mat, crc1, len2) ==
    LET Go(sq) ==
            LET c == IF len2 % 2 = 1 THEN gf2_matrix_times(sq, crc1) ELSE crc1
            IN  IF len2 \div 2 = 0 THEN c
                ELSE CombineLoop(sq, c, len2 \div 2)
    IN  Go(gf2_matrix_square(mat))

\* a combine that forgets the checksum it started from
CombineDropFirst(crc1, crc2, len2) == crc2

\* combine(crc1, crc2, len2)
Combine(crc1, crc2, len2) ==
    IF len2 = 0 THEN crc1
    ELSE WordXor(CombineLoop(OddFour, crc1, len2), crc2)

\* wrapping_add of two words
RECURSIVE WrappingAddAt(_, _, _, _)
WrappingAddAt(x, y, i, carry) ==
    IF i > 4 THEN x
    ELSE LET s == x[i] + y[i] + carry
         IN  WrappingAddAt([x EXCEPT ![i] = s % 256], y, i + 1, s \div 256)

wrapping_add(x, y) == WrappingAddAt(x, y, 1, 0)

\* Crc::combine(additional_crc); len2 is the count the other hasher keeps
\* for itself, in 64 bits
CrcCombine(crc, additional_crc, len2) ==
    [amt |-> wrapping_add(crc.amt, additional_crc.amt),
     sum |-> Combine(crc.sum, additional_crc.sum, len2)]

\* enc holds the two Crc values; ref the first as it was, by its seed, and
\* the bytes b the second was fed
InitCB ==
    /\ phase = "comb"
    /\ \E c \in Seeds \cup { [hi |-> 0, lo |-> Len(a),
                               sum |-> Crc32From(ZeroWord, a)] : a \in Payloads } :
         /\ ref = [a |-> c, b |-> <<>>]
         /\ enc = [ca |-> SeedCrc(c), cb |-> CrcNew]
    /\ sink = <<>>
    /\ written = <<>>
    /\ dec = NoDecoder
    /\ out = <<>>
    /\ res = NoResult
    /\ pending = None

\* cb.update(data)
UpdateCB ==
    /\ phase = "comb"
    /\ \E k \in 1..MaxChunk :
         /\ Len(ref.b) + k <= MaxPayload
         /\ \E data \in [1..k -> PayloadBytes] :
              /\ enc' = [enc EXCEPT !.cb = CrcUpdate(@, data)]
              /\ ref' = [ref EXCEPT !.b = @ \o data]
    /\ UNCHANGED <<phase, sink, written, dec, out, res, pending>>

\* ca.combine(&cb)
CombineCB ==
    /\ phase = "comb"
    /\ enc' = [enc EXCEPT !.ca = CrcCombine(@, enc.cb, Len(ref.b))]
    /\ phase' = "combined"
    /\ UNCHANGED <<sink, written, dec, out, res, pending, ref>>

NextCB == UpdateCB \/ CombineCB

SpecCB == InitCB /\ [][NextCB]_vars

(***************************************************************************)
(* flate2-crc: the checksum by carry-less multiplication.  A 128-bit       *)
(* register is the sequence of its 16 bytes, least significant first; a    *)
(* 64-bit half or constant the sequence of its 8 bytes.                    *)
(***************************************************************************)
\* the folding constants, least significant byte first
K1 == <<212, 43, 68, 84, 1, 0, 0, 0>>

K2 == <<150, 21, 228, 198, 1, 0, 0, 0>>

K3 == <<208, 151, 25, 117, 1, 0, 0, 0>>

K4 == <<158, 0, 170, 204, 0, 0, 0, 0>>

K5 == <<36, 97, 205, 99, 1, 0, 0, 0>>

P_x == <<65, 6, 113, 219, 1, 0, 0, 0>>

U_prime == <<65, 22, 1, 247, 1, 0, 0, 0>>

\* the shortest input the folded path takes
SimdMin == 128

\* the bytes of one register
LaneBytes == 16

\* the fallback of the tests: mz_crc32(crc, data)
fallback(crc, data) == Crc32From(crc, data)

mm_xor_si128(x, y) ==
    WordXor(SubSeq(x, 1, 4), SubSeq(y, 1, 4))
    \o WordXor(SubSeq(x, 5, 8), SubSeq(y, 5, 8))
    \o WordXor(SubSeq(x, 9, 12), SubSeq(y, 9, 12))
    \o WordXor(SubSeq(x, 13, 16), SubSeq(y, 13, 16))

\* _mm_cvtsi32_si128(w): w in the lowest 32 bits, zeros above
mm_cvtsi32_si128(w) == w \o Zeros(12)

\* _mm_set_epi64x(hi, lo)
mm_set_epi64x(hi, lo) == lo \o hi

\* _mm_srli_si128(x, n): n bytes to the right
mm_srli_si128(x, n) == SubSeq(x, n + 1, 16) \o Zeros(n)

\* _mm_and_si128(x, _mm_set_epi32(0, 0, 0, !0)): the lowest 32 bits
Low32(x) == SubSeq(x, 1, 4) \o Zeros(12)

\* _mm_extract_epi32(x, 1)
mm_extract_epi32_1(x) == SubSeq(x, 5, 8)

\* a << i, of a 64-bit a, as 128 bits
ShiftLeft(a, i) ==
    LET Bits(b, r) ==
            SubSeq([j \in 1..16 |->
                       ((b[j] * ByteBit[r + 1]) % 256)
                       + (IF j > 1 THEN b[j - 1] \div (256 \div ByteBit[r + 1])
                                   ELSE 0)], 1, 16)
    IN  Bits(Zeros(i \div 8) \o a \o Zeros(8 - (i \div 8)), i % 8)

\* the carry-less product of two 64-bit values: the xor of a << i over the
\* set bits i of b, bits lo..hi here
RECURSIVE ClmulAt(_, _, _, _)
ClmulAt(a, b, lo, hi) ==
    IF lo = hi
    THEN (IF WordTest(b, lo) THEN ShiftLeft(a, lo) ELSE Zeros(16))
    ELSE mm_xor_si128(ClmulAt(a, b, lo, (lo + hi) \div 2),
                      ClmulAt(a, b, ((lo + hi) \div 2) + 1, hi))

\* _mm_clmulepi64_si128(a, b, imm): bit 0 of imm picks the half of a, bit 4
\* the half of b
mm_clmulepi64_si128(a, b, imm) ==
    ClmulAt(IF imm % 2 = 1 THEN SubSeq(a, 9, 16) ELSE SubSeq(a, 1, 8),
            IF (imm \div 16) % 2 = 1 THEN SubSeq(b, 9, 16) ELSE SubSeq(b, 1, 8),
            0, 63)

reduce128(a, b, keys) ==
    mm_xor_si128(mm_xor_si128(b, mm_clmulepi64_si128(a, keys, 0)),
                 mm_clmulepi64_si128(a, keys, 17))

\* get(&mut data): the register read, and the data behind it
get(data, n) == SubSeq(data, (LaneBytes * n) + 1, LaneBytes * (n + 1))

\* the initial value folded in as it is
FoldInitPlain(x3, crc) == mm_xor_si128(x3, mm_cvtsi32_si128(crc))

\* x3 = _mm_xor_si128(x3, _mm_cvtsi32_si128(!crc as i32))
FoldInit(x3, crc) == mm_xor_si128(x3, mm_cvtsi32_si128(WordNot(crc)))

\* a register once it has been computed (each stage of the computation is
\* completed before the next one starts)
Done(x) == Len(x) = LaneBytes

\* step 1: the fold by 4 loop; yields the four registers and the data left
RECURSIVE FoldBy4(_, _)
FoldBy4(x, data) ==
    IF Len(data) >= 64
    THEN LET k1k2 == mm_set_epi64x(K2, K1)
             Go(x3, x2, x1, x0) ==
                 IF Done(x3) /\ Done(x2) /\ Done(x1) /\ Done(x0)
                 THEN FoldBy4(<<x3, x2, x1, x0>>, Drop(data, 64))
                 ELSE [x |-> x, data |-> data]
         IN  Go(reduce128(x[1], get(data, 0), k1k2),
                reduce128(x[2], get(data, 1), k1k2),
                reduce128(x[3], get(data, 2), k1k2),
                reduce128(x[4], get(data, 3), k1k2))
    ELSE [x |-> x, data |-> data]

\* the four registers folded into one
FoldTo1(x) ==
    LET k3k4 == mm_set_epi64x(K4, K3)
        With0(y) == IF Done(y) THEN reduce128(y, x[4], k3k4) ELSE y
        With1(y) == IF Done(y) THEN With0(reduce128(y, x[3], k3k4)) ELSE y
    IN  With1(reduce128(x[1], x[2], k3k4))

\* step 2: the fold by 1 loop
RECURSIVE FoldBy1(_, _)
FoldBy1(x, data) ==
    IF Len(data) >= 16
    THEN LET Go(y) == IF Done(y) THEN FoldBy1(y, Drop(data, 16))
                                 ELSE [x |-> y, data |-> data]
         IN  Go(reduce128(x, get(data, 0), mm_set_epi64x(K4, K3)))
    ELSE [x |-> x, data |-> data]

\* step 3: 128 bits to 64
Reduce64(x128) ==
    LET To64(x) ==
            IF Done(x)
            THEN mm_xor_si128(
                     mm_clmulepi64_si128(Low32(x), mm_set_epi64x(Zeros(8), K5), 0),
                     mm_srli_si128(x, 4))
            ELSE x
    IN  To64(mm_xor_si128(mm_clmulepi64_si128(x128, mm_set_epi64x(K4, K3), 16),
                          mm_srli_si128(x128, 8)))

\* the Barrett reduction: 64 bits to 32
Barrett(x) ==
    LET pu == mm_set_epi64x(U_prime, P_x)
        C(t2) == mm_extract_epi32_1(mm_xor_si128(x, t2))
        T2(t1) == IF Done(t1) THEN C(mm_clmulepi64_si128(Low32(t1), pu, 0))
                              ELSE ZeroWord
    IN  T2(mm_clmulepi64_si128(Low32(x), pu, 16))

\* x86::calculate(crc, data, fallback)
calculate(crc, data) ==
    IF Len(data) < SimdMin THEN fallback(crc, data)
    ELSE LET Rest(c, rest) ==
                 IF Len(rest) > 0 THEN fallback(WordNot(c), rest) ELSE WordNot(c)
             Step3(x, rest) == IF Done(x) THEN Rest(Barrett(x), rest) ELSE x
             Step2(f) == IF Done(f.x) THEN Step3(Reduce64(f.x), f.data) ELSE f.x
             Fold(x, rest) == IF Done(x) THEN Step2(FoldBy1(x, rest)) ELSE x
             Step1(f) == IF Len(f.x) = 4 THEN Fold(FoldTo1(f.x), f.data) ELSE f.x
             Start(x3) ==
                 IF Done(x3)
                 THEN Step1(FoldBy4(<<x3, get(data, 1), get(data, 2), get(data, 3)>>,
                                    Drop(data, 64)))
                 ELSE x3
         IN  Start(FoldInit(get(data, 0), crc))

\* Hardware::calculate(crc, data, fallback); hw is what detect() found
HardwareCalculate(hw, crc, data) ==
    IF hw THEN calculate(crc, data) ELSE fallback(crc, data)

\* bytes read past the shortest folded input
MaxExtra == 72

HwLengths ==
    {0, 1, LaneBytes, SimdMin - 1, SimdMin, SimdMin + 1, SimdMin + LaneBytes,
     SimdMin + 63, SimdMin + 64, SimdMin + MaxExtra}

HwPatterns(n) ==
    { [i \in 1..n |-> 0],
      [i \in 1..n |-> (i * 37) % 256],
      [i \in 1..n |-> 255 - ((i * i) % 251)] }

HwInitials == { ZeroWord, <<134, 166, 16, 54>>, <<255, 255, 255, 255>> }

\* ref holds what detect() found, the initial value and the data
InitHW ==
    /\ phase = "crc"
    /\ \E hw \in BOOLEAN, crc \in HwInitials, n \in HwLengths :
         \E data \in HwPatterns(n) :
             ref = [hw |-> hw, crc |-> crc, data |-> data]
    /\ enc = ZeroWord
    /\ sink = <<>>
    /\ written = <<>>
    /\ dec = NoDecoder
    /\ out = <<>>
    /\ res = NoResult
    /\ pending = None

\* hardware.calculate(init, &data, fallback)
CalculateHW ==
    /\ phase = "crc"
    /\ enc' = HardwareCalculate(ref.hw, ref.crc, ref.data)
    /\ phase' = "calculated"
    /\ UNCHANGED <<sink, written, dec, out, res, pending, ref>>

NextHW == CalculateHW

SpecHW == InitHW /\ [][NextHW]_vars

(***************************************************************************)
(* Properties.                                                             *)
(***************************************************************************)
IsPrefix(s, t) == Len(s) <= Len(t) /\ s = Take(t, Len(s))

\* the first final result of a run
FirstFinal(r) == IsFinal(r) /\ ~r.after

\* the trailer that belongs to the bytes v
TrailerOf(v) == Trailer(CrcUpdate(CrcNew, v))

RECURSIVE Flatten(_)
Flatten(vs) == IF vs = <<>> THEN <<>> ELSE Head(vs).produced \o Flatten(Tail(vs))

\* C1: what the encoder leaves in its sink after finish, read through a
\* decoder until Ok(0), is exactly what was written, with no error: for every
\* payload, level, header configuration and split into write calls.
C1_RoundTrip ==
    phase = "dec" =>
        /\ res.st \in {"new", "ok"}
        /\ IsPrefix(out, written)
        /\ IsFinal(res) => out = written

C1_Witness ==
    /\ phase = "dec"
    /\ IsFinal(res)
    /\ res.st = "ok"
    /\ out = written
    /\ Len(written) >= 3
    /\ enc.crc.amt = <<Len(written), 0, 0, 0>>

\* C2: a member is accepted only with a trailer whose checksum and length are
\* those of the bytes returned for it; a trailer of 8 bytes that does not
\* match makes the read fail with the checksum-mismatch InvalidInput error.
C2_TrailerChecked ==
    phase = "dec" =>
        /\ \A i \in 1..Len(dec.verified) :
               dec.verified[i].trailer = TrailerOf(dec.verified[i].produced)
        /\ out = Flatten(dec.verified) \o dec.produced
        /\ dec.rejected # None =>
               /\ dec.rejected[1].trailer # TrailerOf(dec.rejected[1].produced)
               /\ dec.rejected[1].produced = dec.produced
               /\ dec.inner = "End"
               /\ (res.st = "err" /\ res.e = corrupt) \/ res.after
        /\ (dec.inner = "End" /\ dec.pos = 8) =>
               (dec.verified # <<>> \/ dec.rejected # None)

C2_Witness ==
    /\ dec.r.bytes \in BadTrailer
    /\ dec.rejected # None
    /\ res.st = "err"
    /\ res.e = corrupt
    /\ out = <<7>>
    /\ dec.rejected[1].trailer[5] = 2

\* C3 as stated: two valid members one after the other, read by a
\* multi-member decoder from a source that never blocks, yield the bytes of
\* the first, then the bytes of the second, then Ok(0).
C3_Concatenation ==
    \A p \in Doubles :
        (dec.r.bytes = p.m1 \o p.m2 /\ dec.multi /\ ~dec.hstall /\ FirstFinal(res)) =>
            (res.st = "ok" /\ out = p.v1 \o p.v2)

\* C4: once a single-member decoder has verified the trailer of the first
\* member every read returns Ok(0) and nothing of what follows is returned.
C4_SingleMemberEnds ==
    (phase = "dec" /\ ~dec.multi /\ dec.verified # <<>>) =>
        /\ dec.inner = "End"
        /\ Len(dec.verified) = 1
        /\ out = dec.verified[1].produced
        /\ res.st = "ok" /\ res.n = 0

C4_Witness ==
    /\ ~dec.multi
    /\ dec.verified # <<>>
    /\ dec.r.bytes \in ValidDoubles
    /\ dec.r.avail = Len(dec.r.bytes)
    /\ dec.r.pos < dec.r.avail
    /\ res.after
    /\ res.into > 0

\* C5 as stated: however the source hands over its bytes, no read panics and
\* the run ends with the header, the bytes and the result of the run over a
\* source that never blocks.
C5_SameAsBlocking ==
    /\ res.st # "panic"
    /\ FirstFinal(res) =>
        /\ out = ref.out
        /\ res.st = ref.st
        /\ res.e = ref.e
        /\ dec.header = ref.header

\* C6 as stated: a read that meets WouldBlock before the header is complete
\* returns WouldBlock and leaves the decoder in Header.
C6_HeaderWouldBlock ==
    (dec.inner = "Header" /\ res.st # "new") => (res.st = "err" /\ res.e = WouldBlock)

\* C7: a read that fails with WouldBlock in Body or Finished leaves the
\* decoder there, the trailer bytes collected so far being the last bytes
\* taken from the source; retried without new bytes it fails the same way and
\* changes nothing; and with no header suspended the run returns the bytes and
\* the result of the run over a source that never blocks: no byte is lost or
\* read twice.
C7_WouldBlockKeepsState ==
    phase = "dec" =>
        /\ (res.st = "err" /\ res.e = WouldBlock) =>
               /\ dec.inner \in {"Body", "Finished"}
               /\ dec.r.pos = dec.r.avail =>
                      \A n \in 1..MaxRead : GzRead(dec, n) = GzErr(dec, WouldBlock)
        /\ dec.inner = "Finished" =>
               /\ dec.pos <= dec.r.pos
               /\ Take(dec.buf, dec.pos)
                      = SubSeq(dec.r.bytes, dec.r.pos - dec.pos + 1, dec.r.pos)
        /\ ~dec.hstall =>
               /\ IsPrefix(out, ref.out)
               /\ FirstFinal(res) =>
                      (out = ref.out /\ res.st = ref.st /\ res.e = ref.e)

C7_Witness ==
    /\ res.st = "err"
    /\ res.e = WouldBlock
    /\ dec.inner = "Finished"
    /\ dec.pos \in 1..7
    /\ ~dec.hstall
    /\ out = <<7>>

\* C8 as stated: a valid stream cut short before the end of its trailer, read
\* from a source that never blocks, ends in InvalidInput when the cut is
\* inside the header and in UnexpectedEof when it is after the header.
C8_Truncation ==
    (dec.r.bytes \in Truncated /\ ~dec.hstall /\ FirstFinal(res)) =>
        /\ res.st = "err"
        /\ res.e.kind = IF Len(dec.r.bytes) < CutHeaderLen THEN "InvalidInput"
                                                          ELSE "UnexpectedEof"

\* an input that does not start with the magic bytes and method 8
HasBadStart(s) ==
    \/ Len(s) >= 1 /\ s[1] # 31
    \/ Len(s) >= 2 /\ s[2] # 139
    \/ Len(s) >= 3 /\ s[3] # 8

\* C9: an input that does not start with 0x1f 0x8b 8 is rejected: the first
\* read to return gives InvalidInput "invalid gzip header", and no byte is
\* ever produced.
C9_BadStartRejected ==
    (phase = "dec" /\ HasBadStart(dec.r.bytes)) =>
        /\ out = <<>>
        /\ res.st # "panic"
        /\ (res.st \in {"ok", "err"} /\ ~res.after) =>
               (res.st = "err" /\ res.e = bad_header)
        /\ res.after => (res.st = "ok" /\ res.n = 0)

C9_Witness ==
    /\ Len(dec.r.bytes) > 10
    /\ dec.r.bytes[1] = 31
    /\ dec.r.bytes[2] = 139
    /\ dec.r.bytes[3] = 7
    /\ res.st = "err"
    /\ res.e = bad_header
    /\ dec.hstall

\* C10 as stated: a header with FHCRC set whose stored value is the low 16
\* bits of the CRC-32 of the header bytes before it is accepted.
C10_HeaderCrc ==
    (dec.r.bytes \in HcrcSingles /\ ~dec.hstall) =>
        /\ dec.inner # "Err"
        /\ ~(res.st = "err" /\ res.e = corrupt)

\* C11: once a read has returned a fatal error or the clean end of the
\* stream, every further read returns Ok(0), produces no byte and leaves
\* the decoder at its end: the error is returned by one call only.
C11_EndIsFinal ==
    (phase = "dec" /\ res.after) =>
        /\ res.st = "ok"
        /\ res.n = 0
        /\ dec.inner = "End"

C11_Witness ==
    /\ phase = "dec"
    /\ res.after
    /\ res.into > 0
    /\ res.st = "ok"
    /\ dec.rejected # None

\* a complete DEFLATE stream that holds exactly the bytes v
DeflatesTo(body, v) ==
    \E ret \in {Decompress(DecompressNew, body, Len(v) + 1, "Finish")} :
        /\ ret.rc = "StreamEnd"
        /\ ret.out = v
        /\ ret.z.total_in = Len(body)

\* the sink holds header h, then a complete compressed body for v, then the
\* 8 bytes of the trailer for v, and nothing else
Layout(w, h, v) ==
    /\ Len(w) >= Len(h) + 8
    /\ SubSeq(w, 1, Len(h)) = h
    /\ DeflatesTo(SubSeq(w, Len(h) + 1, Len(w) - 8), v)
    /\ SubSeq(w, Len(w) - 7, Len(w)) = TrailerOf(v)

\* C12: after any sequence of writes and a finish the sink holds the
\* header once and first, then the compressed bytes, then the 8 trailer
\* bytes and nothing more; before the first write the sink is empty, and
\* from then on it starts with the header.
C12_SinkLayout ==
    /\ (phase = "enc" /\ Len(enc.header) # 0) => enc.inner.obj = Some(<<>>)
    /\ (phase = "enc" /\ Len(enc.header) = 0) =>
          \E b \in Builders, lvl \in Levels :
              IsPrefix(into_header(b, lvl), enc.inner.obj[1])
    /\ (phase = "sink") =>
          \E b \in Builders, lvl \in Levels :
              Layout(sink, into_header(b, lvl), written)

C12_Witness ==
    /\ phase = "sink"
    /\ Len(written) = MaxPayload
    /\ Len(enc.header) = 0
    /\ Len(sink) > 18 + Len(written)

\* C13: the reads of the read-side encoder, whatever the sizes of their
\* non-empty destinations, never fail and return the header, then the
\* compressed body, then the 8 trailer bytes, each byte once and in order;
\* Ok(0) comes only once all of that has been returned, and from then on
\* every read returns Ok(0).
C13_ReadEncoderStream ==
    phase = "genc" =>
        /\ res.st \in {"new", "ok"}
        /\ IsPrefix(Take(out, Len(enc.header)), enc.header)
        /\ (res.st = "ok" /\ res.n = 0) => Layout(out, enc.header, written)
        /\ res.after => (res.st = "ok" /\ res.n = 0)

C13_Witness ==
    /\ phase = "genc"
    /\ res.after
    /\ Len(written) = MaxPayload
    /\ Len(enc.header) > 10
    /\ Layout(out, enc.header, written)

\* the count of a seed and of the bytes v after it, as [hi, lo]
CountAfter(c, v) ==
    [hi |-> c.hi + ((c.lo + Len(v)) \div 65536), lo |-> (c.lo + Len(v)) % 65536]

\* the 8 bytes the trailer is to be after a seed and the bytes v
ExpectedTrailer(c, v) ==
    Crc32From(c.sum, v) \o CountWord(CountAfter(c, v).hi, CountAfter(c, v).lo)

\* the stream w ends with a complete compressed body for v and then the
\* 8 bytes t
EndsWith(w, hlen, v, t) ==
    /\ Len(w) >= hlen + 8
    /\ DeflatesTo(SubSeq(w, hlen + 1, Len(w) - 8), v)
    /\ SubSeq(w, Len(w) - 7, Len(w)) = t

\* C14: the trailer either encoder emits is 8 bytes: the CRC-32 of all the
\* uncompressed bytes, least significant byte first, then the number of
\* uncompressed bytes modulo 2^32, least significant byte first, also when
\* the number has reached 2^32.
C14_Trailer ==
    /\ phase = "sink" => EndsWith(sink, 10, written, ExpectedTrailer(ref, written))
    /\ (phase = "genc" /\ res.st = "ok" /\ res.n = 0) =>
          EndsWith(out, 10, written, ExpectedTrailer(ref, written))

C14_Witness ==
    /\ phase = "sink"
    /\ ref.hi = 65535
    /\ CountAfter(ref, written).hi = 65536
    /\ CountAfter(ref, written).lo = 1
    /\ SubSeq(sink, Len(sink) - 3, Len(sink)) = <<1, 0, 0, 0>>

\* the header a decoder is to report for the builder b
HeaderOf(b) ==
    [extra |-> b.extra, filename |-> b.filename, comment |-> b.comment,
     operating_system |-> IF b.operating_system = None THEN 255
                          ELSE b.operating_system[1],
     mtime |-> b.mtime]

\* C15: the header reported by the decoder that parses the encoder's output
\* carries exactly the extra field, the filename, the comment, the mtime and
\* the operating system the builder was given, and reports an optional
\* field that was not given as absent (the operating system as 255).
C15_HeaderFields ==
    phase = "dec" => dec.header = Some(HeaderOf(ref))

C15_Witness ==
    /\ phase = "dec"
    /\ dec.header # None
    /\ ref.extra # None /\ Len(ref.extra[1]) = LongExtra
    /\ ref.filename = Some(<<97, 98>>)
    /\ ref.comment = None
    /\ ref.operating_system = Some(3)
    /\ out = <<7>>

\* bit (a power of two) is set in the byte x
BitSet(x, bit) == (x \div bit) % 2 = 1

\* C16: byte 3 of every header the builder produces has FEXTRA (4), FNAME
\* (8) and FCOMMENT (16) set exactly when the field was configured, and
\* every other bit, FHCRC included, zero.
C16_FlagByte ==
    (phase = "enc" /\ Len(enc.header) # 0) =>
        /\ BitSet(enc.header[4], 4) <=> (ref.extra # None)
        /\ BitSet(enc.header[4], 8) <=> (ref.filename # None)
        /\ BitSet(enc.header[4], 16) <=> (ref.comment # None)
        /\ ~BitSet(enc.header[4], 2)
        /\ enc.header[4] = (IF ref.extra # None THEN 4 ELSE 0)
                            + (IF ref.filename # None THEN 8 ELSE 0)
                            + (IF ref.comment # None THEN 16 ELSE 0)

C16_Witness ==
    /\ phase = "enc"
    /\ Len(enc.header) # 0
    /\ enc.header[4] = 28
    /\ ref.comment = Some(<<>>)

\* C17: the read-driven adapter returns Ok(0) into a destination with room
\* only when its last codec step found the source at its end or the codec
\* reported StreamEnd: never because a step produced nothing while input
\* remained.
C17_NoSpuriousEof ==
    (phase = "zdec" /\ res.st = "ok" /\ res.n = 0 /\ res.into > 0) =>
        /\ res.eof \/ res.rc = "StreamEnd"
        /\ dec.r.pos = Len(dec.r.bytes) \/ dec.z.st = "done"

C17_Witness ==
    /\ phase = "zdec"
    /\ res.st = "ok" /\ res.n = 0 /\ res.into > 0
    /\ res.rc = "StreamEnd" /\ ~res.eof
    /\ dec.r.pos < Len(dec.r.bytes)
    /\ out = <<7, 0, 7>>

\* C18: the adapter advances the source by exactly what the codec consumed:
\* the source's position is the codec's total_in after every call, and once
\* a compressed stream followed by other bytes is decoded to its end,
\* total_in is the length of the compressed stream, the bytes decoded are
\* those it holds, and the bytes that follow are still unread.
C18_ConsumedExactly ==
    phase = "zdec" =>
        /\ dec.r.pos = dec.z.total_in
        /\ dec.z.st = "done" =>
              /\ dec.z.total_in = ref.clen
              /\ Drop(dec.r.bytes, dec.r.pos) = Drop(ref.bytes, ref.clen)
        /\ (res.st = "ok" /\ res.n = 0 /\ res.into > 0 /\ dec.z.st = "done") =>
              out = ref.v

C18_Witness ==
    /\ phase = "zdec"
    /\ res.st = "ok" /\ res.n = 0 /\ res.into > 0
    /\ dec.z.st = "done"
    /\ dec.r.avail = Len(dec.r.bytes)
    /\ Drop(dec.r.bytes, dec.r.pos) = <<1, 9>>
    /\ Len(ref.v) = MaxPayload

\* C19: when flush has returned, a further Sync step of the codec produces
\* nothing, the scratch buffer is empty, the sink has received every byte
\* the codec produced, in order (they decode to all that was written), and
\* the sink's own flush was called after the last of them was written.
C19_FlushDrains ==
    (phase = "wr" /\ res.st = "flush") =>
        /\ Compress(enc.data, <<>>, BufCap, "Sync").out = <<>>
        /\ enc.buf = <<>>
        /\ Len(enc.obj[1]) = enc.data.total_out
        /\ Decompress(DecompressNew, enc.obj[1], Len(written) + 1, "None").out
             = written
        /\ res.n = Len(enc.obj[1])

C19_Witness ==
    /\ phase = "wr"
    /\ res.st = "flush"
    /\ Len(written) = MaxPayload
    /\ Len(enc.obj[1]) > 2 * BufCap
    /\ res.n = Len(enc.obj[1])

\* C20: once a writer that still had its sink has been dropped, the sink
\* holds one complete stream that decodes to exactly the bytes written; and
\* a drop after the sink was taken (by finish or into_inner) changes neither
\* the sink nor the writer.
C20_DropFinishes ==
    /\ [](( phase = "dropped" /\ res.st = "drop") => DeflatesTo(sink, written))
    /\ [][phase = "taken" => (sink' = sink /\ enc' = enc /\ enc.obj = None)]_vars

C20_Witness ==
    /\ phase = "dropped"
    /\ res.st = "drop"
    /\ Len(written) = MaxPayload
    /\ Len(sink) > 2 * BufCap
    /\ enc.obj = Some(sink)

\* C21 as stated: dropping a write-side adapter with its sink, whatever
\* was written to it and whether or not the sink takes the bytes, neither
\* unwinds nor surfaces an error.
C21_DropIsQuiet ==
    (phase = "dropped" /\ res.st = "drop") => enc.st = "ok"

\* C22: a read or a write in which the codec reports a data error returns
\* the InvalidInput error "corrupt deflate stream", and only then is that
\* error returned for a codec result.
C22_DataError ==
    /\ (phase = "zdec" /\ res.rc = "DataError") =>
            /\ res.st = "err"
            /\ res.e = [kind |-> "InvalidInput", msg |-> "corrupt deflate stream"]
    /\ (phase \in {"wd", "panic", "hang"} /\ res.st = "write"
            /\ res.rc = "DataError") =>
            /\ phase = "wd"
            /\ enc.st = "err"
            /\ enc.e = [kind |-> "InvalidInput", msg |-> "corrupt deflate stream"]

C22_Witness ==
    /\ phase = "wd"
    /\ res.st = "write"
    /\ res.rc = "DataError"
    /\ Len(written) > 5
    /\ enc.data.total_out > 0
    /\ enc.e = corrupt_deflate

\* C23: bytes written to an encoder whose sink is a decoder are, after the
\* finish of the encoder and then of the decoder, exactly what the innermost
\* sink holds; no call on the way fails.
C23_NestedRoundTrip ==
    /\ phase \in {"nest", "inner", "done"} => enc.st = "ok"
    /\ phase = "done" => sink = written

C23_Witness ==
    /\ phase = "done"
    /\ sink = written
    /\ Len(written) = MaxPayload
    /\ enc.data.total_in > 2 * BufCap

\* the bytes a decoder gives for as much of a stream as it was given
Decoded(bytes) == Decompress(DecompressNew, bytes, Len(bytes) + 1, "Finish").out

FirstMemberLen(bytes) ==
    IF \E p \in Doubles : bytes = p.m1 \o p.m2
    THEN Len((CHOOSE p \in Doubles : bytes = p.m1 \o p.m2).m1)
    ELSE IF bytes \in TrailingJunk THEN Len(bytes) - 1 ELSE Len(bytes)

\* C26: a single-member decoder that has verified the trailer of the first
\* member has taken from its source the bytes of that member and no more:
\* a byte that follows the trailer is still unread in the source.
C26_ConsumesOneMember ==
    (phase = "dec" /\ ~dec.multi /\ dec.verified # <<>>) =>
        /\ dec.inner = "End"
        /\ dec.r.pos = FirstMemberLen(dec.r.bytes)
        /\ ReaderFillBuf(dec.r).data
             = SubSeq(dec.r.bytes, FirstMemberLen(dec.r.bytes) + 1, dec.r.avail)

C26_Witness ==
    /\ phase = "dec"
    /\ ~dec.multi
    /\ dec.verified # <<>>
    /\ dec.inner = "End"
    /\ dec.r.bytes \in ValidDoubles \cup TrailingJunk
    /\ dec.r.avail = Len(dec.r.bytes)
    /\ dec.r.pos < Len(dec.r.bytes)
    /\ ReaderFillBuf(dec.r).data # <<>>
    /\ out = <<7>>

\* x <= y on counts of the same width
RECURSIVE LimbLeqAt(_, _, _)
LimbLeqAt(x, y, i) ==
    IF i = 0 THEN TRUE
    ELSE IF x[i] # y[i] THEN x[i] < y[i]
    ELSE LimbLeqAt(x, y, i - 1)

LimbLeq(x, y) == LimbLeqAt(x, y, Len(x))

\* C27 as stated: total_in and total_out of a codec handle are the exact
\* sums of what the calls since construction or the last reset consumed and
\* produced, whatever the width of the engine's counters, and a call never
\* lowers them.
C27_Totals ==
    phase = "count" =>
        /\ MemTotalIn(enc) \o <<0>> = ref.sum_in
        /\ MemTotalOut(enc) \o <<0>> = ref.sum_out
        /\ LimbLeq(ref.prev_in, MemTotalIn(enc))
        /\ LimbLeq(ref.prev_out, MemTotalOut(enc))

\* C28: decoding by repeated calls, each given the input from offset
\* total_in and a fresh small output buffer: a call made while output
\* remains returns Ok and makes progress; a call whose buffer is smaller
\* than the output that remains consumes fewer bytes than it was given;
\* the loop ends, on a call that reports BufError with no output, and then
\* the chunks together are the output of a one-shot decompression.
C28_PartialDecode ==
    (phase \in {"chunk", "chunked", "panic"} /\ res.st = "call") =>
        /\ phase # "panic"
        /\ res.left > 0 => (res.rc = "Ok" /\ res.n = Min(res.left, ref.cap))
        /\ res.left > ref.cap => res.consumed < res.avail
        /\ phase = "chunk" => (res.n > 0 \/ res.consumed > 0)
        /\ out = Take(OneShot(ref.bytes), Len(out))
        /\ phase = "chunked" =>
              /\ res.rc = "BufError" /\ res.n = 0
              /\ out = OneShot(ref.bytes)
              /\ out = ref.v

C28_Witness ==
    /\ phase = "chunked"
    /\ ref.cap = 1
    /\ Len(out) = MaxPayload
    /\ res.calls > MaxPayload
    /\ enc.total_in = Len(ref.bytes)

\* the u32 of a count kept in 16-bit limbs
LimbWord(x) == <<x[1] % 256, x[1] \div 256, x[2] % 256, x[2] \div 256>>

\* C29: a Crc of a combined with a Crc of b has the CRC-32 of a followed by
\* b for its sum and (|a| + |b|) mod 2^32 for its amount; combined with the
\* Crc of no bytes it is what it was.
C29_Combine ==
    phase = "combined" =>
        /\ enc.ca.sum = Crc32From(ref.a.sum, ref.b)
        /\ enc.ca.amt = LimbWord(LimbAdd(<<ref.a.lo, ref.a.hi % Limb>>,
                                         <<Len(ref.b)>>))
        /\ ref.b = <<>> => enc.ca = SeedCrc(ref.a)
        /\ enc.cb = CrcUpdate(CrcNew, ref.b)

C29_Witness ==
    /\ phase = "combined"
    /\ Len(ref.b) = MaxPayload
    /\ ref.a.hi = 65535 /\ ref.a.lo = 65534
    /\ enc.ca.amt = <<1, 0, 0, 0>>
    /\ enc.ca.sum # enc.cb.sum

\* C30: whatever the initial value and the data, Hardware::calculate
\* returns what the fallback returns for them, on the folded path and off
\* it, for data shorter than 128 bytes and for data whose length is not a
\* multiple of 16.
C30_HardwareIsFallback ==
    phase = "calculated" => enc = fallback(ref.crc, ref.data)

C30_Witness ==
    /\ phase = "calculated"
    /\ ref.hw
    /\ Len(ref.data) > SimdMin + 64
    /\ Len(ref.data) % LaneBytes # 0
    /\ ref.crc = <<134, 166, 16, 54>>
    /\ ref.data[1] # 0
    /\ enc = fallback(ref.crc, ref.data)

\* the order of the parser's states
StateRank(state) ==
    CASE state = "Start" -> 0 [] state = "Xlen" -> 1 [] state = "Extra" -> 2
      [] state = "Filename" -> 3 [] state = "Comment" -> 4 [] state = "Crc" -> 5
      [] OTHER -> 6

\* the index after the first zero byte of s at or after index from; past the
\* end of s when there is none
RECURSIVE CStrEnd(_, _)
CStrEnd(s, from) ==
    IF from > Len(s) THEN Len(s) + 1
    ELSE IF s[from] = 0 THEN from
    ELSE CStrEnd(s, from + 1)

\* how many bytes of the stream s a parser has to have read before it may be
\* in the state of rank k (6: the header is done); more than s holds when s
\* ends before that
FieldStart(s, k) ==
    LET flg == IF Len(s) >= 4 THEN s[4] ELSE 0
        xlen == IF Len(s) >= 12 THEN s[11] + 256 * s[12] ELSE 0
        extra == IF HasFlag(flg, FEXTRA) THEN 12 ELSE 10
        filename == IF HasFlag(flg, FEXTRA) THEN extra + xlen ELSE extra
        comment == IF HasFlag(flg, FNAME) THEN CStrEnd(s, filename + 1) ELSE filename
        crc == IF HasFlag(flg, FCOMMENT) THEN CStrEnd(s, comment + 1) ELSE comment
    IN  CASE k = 0 -> 0 [] k = 1 -> 10 [] k = 2 -> extra [] k = 3 -> filename
          [] k = 4 -> comment [] k = 5 -> crc
          [] OTHER -> IF HasFlag(flg, FHCRC) THEN crc + 2 ELSE crc

\* C31 as stated: the parser's state moves forward only, through Start, Xlen,
\* Extra, Filename, Comment, Crc; it is in a state, or past the header, only
\* when every byte the states before require has been read from the source;
\* and a call that fails leaves the decoder with the parser where it stood.
C31_ForwardOnly ==
    /\ []((phase = "dec" /\ dec.verified = <<>>) =>
            /\ dec.inner = "Header" =>
                  dec.r.pos >= FieldStart(dec.r.bytes, StateRank(dec.part.state))
            /\ dec.inner \in {"Body", "Finished"} =>
                  dec.r.pos >= FieldStart(dec.r.bytes, 6))
    /\ [][(phase = "dec" /\ dec.inner = "Header" /\ dec'.inner = "Header"
             /\ dec'.verified = dec.verified) =>
               StateRank(dec'.part.state) >= StateRank(dec.part.state)]_vars

\* C32 as stated: whenever the parser is suspended, the replay buffer holds
\* exactly the bytes read so far for the unfinished fixed-length field, once
\* each and in source order (nothing for a filename or a comment, whose
\* bytes go to the header), so that the replay hands every byte to the
\* parser once.
C32_ReplayExact ==
    (phase = "dec" /\ dec.inner = "Header" /\ dec.verified = <<>>) =>
        dec.part.buf =
            IF dec.part.state \in {"Filename", "Comment"} THEN <<>>
            ELSE SubSeq(dec.r.bytes,
                        FieldStart(dec.r.bytes, StateRank(dec.part.state)) + 1,
                        dec.r.pos)

\* C33: in multi-member mode, once a member's trailer has verified and the
\* source holds more, the checksum with its count, the codec and the header
\* parser start afresh and the stored header is cleared until the next
\* header has parsed: the checksum and the codec cover the bytes of the
\* member being read only, and every trailer accepted is the trailer of the
\* bytes returned for its own member.
C33_RestartResets ==
    (phase = "dec" /\ dec.multi /\ dec.verified # <<>>) =>
        /\ \A i \in 1..Len(dec.verified) :
              dec.verified[i].trailer = TrailerOf(dec.verified[i].produced)
        /\ dec.inner = "Header" =>
              (dec.header = None /\ dec.crc = CrcNew /\ dec.data = DecompressNew)
        /\ dec.inner = "Body" =>
              /\ dec.header # None
              /\ dec.crc = CrcUpdate(CrcNew, dec.produced)
              /\ dec.data.total_out = Len(dec.produced)
        /\ dec.inner \in {"Header", "Body", "Finished", "Err"} =>
              dec.r.pos > FirstMemberLen(dec.r.bytes)

C33_Witness ==
    /\ phase = "dec"
    /\ dec.multi
    /\ Len(dec.verified) = 2
    /\ dec.verified[1].produced # <<>>
    /\ dec.verified[2].produced # <<>>
    /\ dec.verified[1].trailer # dec.verified[2].trailer
    /\ dec.inner = "End"

C35_EmptyRead ==
    /\ [][/\ (phase = "genc" /\ res'.into = 0 /\ ~enc.eof) =>
               (res'.st = "ok" /\ res'.n = 0 /\ ~enc'.eof)
          /\ (phase = "dec" /\ res'.into = 0 /\ dec.inner = "Body") =>
               (res'.st = "ok" /\ res'.n = 0 /\ dec' = dec /\ out' = out)]_vars
    /\ []((phase = "genc" /\ enc.eof /\ enc.pos = 8) => Layout(out, enc.header, written))
    /\ []((phase = "dec" /\ dec.inner = "End") => out = Flatten(dec.verified))

\* C36 as stated: when the source of a read-side encoder fails during a
\* read, no byte of the output is lost: the bytes the reads have returned
\* are all the bytes the encoder's cursors have moved past (header cursor
\* and compressed bytes before the trailer phase; the whole header, the
\* body and the trailer cursor in it), and once the trailer is out they are
\* the header, the body and the trailer.
C36_NoByteLost ==
    phase = "genc" =>
        /\ ~enc.eof => /\ Len(out) = enc.pos + enc.z.total_out
                       /\ IsPrefix(Take(enc.header, enc.pos), out)
        /\ enc.eof => Len(out) = Len(enc.header) + enc.z.total_out + enc.pos
        /\ (enc.eof /\ enc.pos = 8) => Layout(out, enc.header, written)

\* C37 as stated: every call of write on the write-driven adapter returns:
\* the loop that runs the codec again when it consumed nothing comes to an
\* end, also for input that is written after the codec reported StreamEnd.
C37_WriteReturns ==
    /\ phase # "hang"
    /\ (phase \in {"wd", "enc", "wr", "nest", "inner"} /\ "st" \in DOMAIN enc) =>
            enc.st # "hang"

\* C38 as stated: every byte the codec produces reaches the sink exactly
\* once and in the order of its production, also when a write of the sink
\* fails after it took a part of the scratch buffer and the caller repeats
\* the call: the sink always holds a prefix of what the codec produces, and
\* after a flush that succeeded all that the codec has produced.
C38_ExactlyOnce ==
    (phase = "wd" /\ ref.bytes = Deflated(ref.v)) =>
        /\ IsPrefix(enc.obj[1], ref.v)
        /\ (res.st = "flush" /\ enc.st = "ok") =>
                enc.obj[1] = Take(ref.v, enc.data.total_out)

\* C39 as stated: over any sequence of write, finish and drop on a
\* write-side gzip encoder, a finish that fails partway and is followed by
\* the drop included, each byte of the header is written to the sink at
\* most once: the sink never accepts more header bytes than the header has.
C39_HeaderOnce ==
    phase \in {"gw", "failed", "taken", "dropped"} => ref.raw <= Len(ref.header)

\* the parser has passed the Extra state
PastExtra(p) == p.state \in {"Filename", "Comment", "Crc", "Done"}

\* C40 as stated: for every extra field given to the builder, the two
\* length bytes of the header, least significant first, give the number of
\* extra bytes that follow them, so that the parser reads back exactly the
\* extra field that was configured and finds the next field of the header
\* where the encoder put it, also for an extra field of more than 65535
\* bytes.
C40_ExtraLength ==
    phase = "xl" =>
        /\ dec.st = "ok"
        /\ (dec.state # "New" /\ ref.extra # None) =>
                enc[11] + 256 * enc[12] = Len(ref.extra[1])
        /\ PastExtra(dec) =>
                /\ dec.extra = ref.extra
                /\ dec.pos >= 10 + (IF ref.extra # None THEN 2 + Len(ref.extra[1]) ELSE 0)
        /\ dec.state \in {"Comment", "Crc", "Done"} =>
                /\ dec.name_at = 10 + (IF ref.extra # None THEN 2 + Len(ref.extra[1]) ELSE 0)
                /\ dec.filename = ref.filename
        /\ dec.state = "Done" =>
                /\ dec.comment = ref.comment
                /\ dec.pos = Len(enc)

====
